---------------------------- MODULE Spec2Model ----------------------------
(***************************************************************************)
(* OptDePng: the PNG reverse filter in its three kernels                   *)
(* (OptDePngFilterRef, OptDePngFilterOpt, OptDePngFilterSSE2), the scalar  *)
(* helpers they share, and the image generator of the test harness.        *)
(*                                                                         *)
(* Memory is byte addressed.  A buffer is a sequence of bytes placed at an *)
(* absolute address `base`; pointers are absolute addresses and the null   *)
(* pointer is address 0.  A read outside the buffer is undefined           *)
(* behaviour: the kernel state records it in `bad`, and the action that    *)
(* made it either faults or goes on with a garbage byte.                   *)
(***************************************************************************)
EXTENDS Integers, Sequences, FiniteSets, TLC

VARIABLES
  bpp,    \* bytes per pixel passed to the three kernels
  bpl,    \* bytes per line passed to the three kernels (w * bpp + 1)
  h,      \* number of rows passed to the three kernels
  raw,    \* the filtered image as generated: the input of every kernel
  ref,    \* OptDePngFilterRef: its buffer, cursors and position
  opt,    \* OptDePngFilterOpt: its buffer, cursors and position
  sse,    \* OptDePngFilterSSE2: its buffer, cursors, registers and position
  fn,     \* arguments and results of the scalar helpers (SpecFn)
  gen,    \* OptDePngRandomImage: its arguments and the images it returned
  cmp,    \* OptDePngCompare: its arguments and its result
  main    \* main and OptDePngCheck: loop counters, buffers, exit code

vars == <<bpp, bpl, h, raw, ref, opt, sse, fn, gen, cmp, main>>

---------------------------------------------------------------------------
(* Bounds of the model.                                                    *)

\* Number of rows of the generated images: a filtered row under the
\* untouched first row and one under a reconstructed row.
MaxH == 3
\* Pixel bytes per row of the widest generated images: two 64-byte blocks,
\* 16-byte and 8-byte blocks and a scalar tail behind the longest
\* alignment head.
MaxRowBytes == 168
\* Pixel bytes per row of the medium images (16-byte and 8-byte blocks only).
MidRowBytes == 48
\* Width of the images whose first row carries a filter other than None.
FirstRowMaxW == 2
\* The helpers' second argument is sampled every PaethStep values.
PaethStep == 5

---------------------------------------------------------------------------
(* Program constants.                                                      *)

kPngFilterNone  == 0
kPngFilterSub   == 1
kPngFilterUp    == 2
kPngFilterAvg   == 3
kPngFilterPaeth == 4
kPngFilterCount == 5

NULL == 0

OptDePngBppData == <<1, 2, 3, 4, 6, 8>>

OptDePngRandomData == <<
  217, 250, 167, 32, 107, 211, 65, 201, 26, 39, 47, 100, 89,
  133, 71, 28, 252, 62, 163, 91, 60, 210, 181, 182, 128, 187,
  132, 60, 212, 148, 58, 109, 194, 27, 61, 95, 130, 217, 26,
  127, 198, 141, 57, 221, 7, 173, 122, 64, 141, 55, 86, 18,
  139, 81, 175, 157, 23, 189, 208, 97, 88, 200, 5, 68, 155,
  202, 212, 208, 208, 185, 131, 117, 49, 75, 9, 236, 82, 235,
  229, 232, 170, 246, 221, 121, 54, 97, 23, 177, 138, 72, 0,
  26, 157, 220, 81, 159, 52, 122, 72, 86, 201, 243, 106, 129,
  155, 71, 86, 100, 0, 48, 96, 4, 144, 75, 194, 72, 227,
  237, 98, 223, 70, 239, 255, 255, 255, 255, 255, 255, 255, 255,
  254, 148, 238, 0, 169, 59, 134, 155, 216, 238, 61, 158, 50,
  0, 0, 0, 0, 146, 97, 159, 59, 34, 176, 185, 179, 176,
  1, 1, 1, 1, 244, 131, 252, 73, 169, 210, 137, 224, 23,
  116, 62, 189, 40, 116, 94, 248, 109, 210, 67, 183, 90, 181,
  230, 164, 199, 164, 70, 211, 0, 26, 38, 12, 101, 36, 173,
  167, 234, 244, 189, 246, 99, 43, 236, 30, 223, 12, 189, 80,
  235, 113, 217, 134, 49, 98, 94, 231, 77, 139, 209, 17, 91,
  38, 72, 159, 142, 230, 123, 225, 12, 248, 205, 248, 144, 30,
  78, 36, 254, 144, 211, 162, 45, 252, 79, 58, 47, 27, 226,
  184, 191, 17, 104, 128, 203, 38, 173, 28, 88, 78, 87, 48,
  0, 0, 0, 134, 74, 80, 54, 144, 92, 64, 167, 56, 146,
  3, 240, 57, 130, 64, 237, 57, 34, 130, 144, 103, 223, 149,
  52, 21, 138, 15, 37, 148, 86, 253, 56, 133, 155, 6, 34
>>

Byte == 0..255

---------------------------------------------------------------------------
(* Scalar helpers.                                                         *)

Min(a, b) == IF a < b THEN a ELSE b
Max(a, b) == IF a > b THEN a ELSE b

\* (a + b) & 0xFF, packed to a byte.
Sum(a, b) == (a + b) % 256

\* UDiv3 dividing by two.
UDiv3Half(x) == x \div 2

\* UDiv3 with the multiplier one too small.
UDiv3Short(x) == (x * 170) \div 512

\* (x * 0xAB) >> 9 on int32 (the model's x stay far below overflow).
UDiv3(x) == (x * 171) \div 512

Abs(x) == IF x >= 0 THEN x ELSE -x

\* Avg rounding up, as PAVGB does.
AvgCeil(a, b) == (a + b + 1) \div 2

\* (a + b) >> 1 on uint32.
Avg(a, b) == (a + b) \div 2

\* PaethRef returning the other neighbour in its first two cases.
PaethRefSwapped(b, a, c) ==
  LET pa == Abs(b - c)
      pb == Abs(a - c)
      pc == Abs((b - c) + (a - c))
  IN  IF pa <= pb /\ pa <= pc THEN b ELSE IF pb <= pc THEN a ELSE c

\* PaethRef taking a without looking at pc.
PaethRefNoPc(b, a, c) ==
  LET pa == Abs(b - c)
      pb == Abs(a - c)
      pc == Abs((b - c) + (a - c))
  IN  IF pa <= pb THEN a ELSE IF pb <= pc THEN b ELSE c

PaethRef(b, a, c) ==
  LET pa0 == b - c
      pb0 == a - c
      pc0 == pa0 + pb0
      pa  == Abs(pa0)
      pb  == Abs(pb0)
      pc  == Abs(pc0)
  IN  IF pa <= pb /\ pa <= pc THEN a ELSE IF pb <= pc THEN b ELSE c

\* x >> 31 on int32: the arithmetic shift leaves the sign, 0 or -1.
Sar31(x) == IF x < 0 THEN -1 ELSE 0

\* ~x on int32 (two's complement).
Not32(x) == -x - 1

\* x & y on two's complement integers of any sign.
RECURSIVE BitAnd(_, _)
BitAnd(x, y) ==
  IF x = 0 \/ y = 0 THEN 0
  ELSE IF x = -1 THEN y
  ELSE IF y = -1 THEN x
  ELSE (x % 2) * (y % 2) + 2 * BitAnd(x \div 2, y \div 2)

\* The sign masks of PaethOpt, 0 or -1 (all ones):
\* ~((divAB + minAB) >> 31) and ~((divAB - maxAB) >> 31).
PaethMaskHi(minAB, divAB) == Not32(Sar31(divAB + minAB))
PaethMaskLo(maxAB, divAB) == Not32(Sar31(divAB - maxAB))

\* The first masked term of PaethOpt without divAB.
PaethOptHiNoDiv(minAB, maxAB, divAB) == BitAnd(maxAB, Not32(Sar31(minAB)))

\* The first masked term of PaethOpt: maxAB & ~((divAB + minAB) >> 31).
PaethOptHi(minAB, maxAB, divAB) == BitAnd(maxAB, PaethMaskHi(minAB, divAB))

\* The second masked term of PaethOpt with its mask left out.
PaethOptLoAlways(minAB, maxAB, divAB) == minAB

\* The second masked term of PaethOpt: minAB & ~((divAB - maxAB) >> 31).
PaethOptLo(minAB, maxAB, divAB) == BitAnd(minAB, PaethMaskLo(maxAB, divAB))

PaethOpt(a, b, c) ==
  LET minAB0 == Min(a, b)
      maxAB0 == Max(a, b)
      divAB  == UDiv3(maxAB0 - minAB0)
      minAB  == minAB0 - c
      maxAB  == maxAB0 - c
  IN  c + PaethOptHi(minAB, maxAB, divAB) + PaethOptLo(minAB, maxAB, divAB)

\* The two masks and the two masked terms PaethOpt(a, b, c) adds to c.
PaethOptParts(a, b, c) ==
  LET divAB == UDiv3(Max(a, b) - Min(a, b))
      minAB == Min(a, b) - c
      maxAB == Max(a, b) - c
  IN  [maskHi |-> PaethMaskHi(minAB, divAB), maskLo |-> PaethMaskLo(maxAB, divAB),
       hi |-> PaethOptHi(minAB, maxAB, divAB), lo |-> PaethOptLo(minAB, maxAB, divAB)]

\* n applications of Step to the record k: the body of a counted loop run
\* n times.  The repetitions are split in halves, and the first half is
\* looked at before the second starts, to keep the evaluation shallow.
RECURSIVE Repeat(_, _, _)
Repeat(Step(_), k, n) ==
  IF n <= 0 THEN k
  ELSE IF n = 1 THEN Step(k)
  ELSE LET half == Repeat(Step, k, n \div 2)
       IN  IF DOMAIN half = {} THEN half
           ELSE Repeat(Step, half, n - n \div 2)

\* OptAlignDiff giving the distance from the boundary below p.
OptAlignDiffDown(p, alignment) ==
  LET mask == alignment - 1
  IN  BitAnd(p, mask)

OptAlignDiff(p, alignment) ==
  LET mask == alignment - 1
  IN  BitAnd(alignment - BitAnd(p, mask), mask)

---------------------------------------------------------------------------
(* The image generator of the harness.                                     *)

OptDePngRandomWrap(x, advance, count) ==
  LET x1 == x + advance
  IN  IF x1 < count THEN x1 ELSE x1 - count

\* The pixel loop that leaves out every second byte.
RandomPixelSkip(g) ==
  IF ~g.odd
    THEN [g EXCEPT !.out[g.p] = OptDePngRandomData[g.rIndex0 + 1], !.p = @ + 1,
                   !.rIndex0 = OptDePngRandomWrap(@, 1, Len(OptDePngRandomData)),
                   !.odd = TRUE]
    ELSE [g EXCEPT !.p = @ + 1, !.odd = FALSE]

\* One byte of the inner for (;;) of OptDePngRandomImage, *p++ = ...: the
\* bytes come in turn from the two indices; g.odd tells that the next
\* comes from rIndex1.
RandomPixel(g) ==
  IF ~g.odd
    THEN [g EXCEPT !.out[g.p] = OptDePngRandomData[g.rIndex0 + 1], !.p = @ + 1,
                   !.rIndex0 = OptDePngRandomWrap(@, 1, Len(OptDePngRandomData)),
                   !.odd = TRUE]
    ELSE [g EXCEPT !.out[g.p] = OptDePngRandomData[g.rIndex1 + 1], !.p = @ + 1,
                   !.rIndex1 = OptDePngRandomWrap(@, 2, Len(OptDePngRandomData)),
                   !.odd = FALSE]

\* f after the filter byte of row y: ++f, back to 0 at kPngFilterCount,
\* in the rows that take the else branch.
RandomNextF(y, filter, f) ==
  IF y = 0 \/ filter < kPngFilterCount THEN f
  ELSE IF f + 1 >= kPngFilterCount THEN 0 ELSE f + 1

\* The filter byte that treats row 0 like the other rows.
RandomFilterByteAll(y, filter, f1) ==
  IF filter < kPngFilterCount THEN filter ELSE f1

\* The filter byte of row y: None for row 0, filter when it names one,
\* else the f just advanced.
RandomFilterByte(y, filter, f1) ==
  IF y = 0 THEN kPngFilterNone
  ELSE IF filter < kPngFilterCount THEN filter
  ELSE f1

\* The row loop of OptDePngRandomImage, from row y on; w is already w * bpp.
RECURSIVE RandomRows(_, _, _, _, _)
RandomRows(g, y, w, hh, filter) ==
  IF ~(y < hh) THEN g
  ELSE LET f1 == RandomNextF(y, filter, g.f)
           fb == RandomFilterByte(y, filter, f1)
           g1 == [g EXCEPT !.out[g.p] = fb, !.p = @ + 1, !.f = f1, !.odd = FALSE]
       IN  RandomRows(Repeat(RandomPixel, g1, w), y + 1, w, hh, filter)

\* size = (w + 1) * h, w being w * bpp by then.
RandomSize(w, hh, bppA) == (w * bppA + 1) * hh

\* OptDePngRandomImage from uint8_t* p = pImage on: mem is the block malloc
\* returned, of RandomSize bytes and of contents the call has no say in.
RandomFill(mem, w, hh, bppA, filter, seed) ==
  LET rCount == Len(OptDePngRandomData)
      g0 == [out |-> mem, p |-> 1, rIndex0 |-> seed % rCount,
             rIndex1 |-> (seed * 33) % rCount, f |-> filter, odd |-> FALSE]
  IN  RandomRows(g0, 0, w * bppA, hh, filter).out

\* A block of n bytes that all hold v.
Block(n, v) == [j \in 1..n |-> v]

\* The image the call returns, here built in a block of zeros.
OptDePngRandomImage(w, hh, bppA, filter, seed) ==
  RandomFill(Block(RandomSize(w, hh, bppA), 0), w, hh, bppA, filter, seed)

\* The seed OptDePngCheck has reached when its loops stand at
\* (filter, h, w, bppIndex): it starts at 0 and grows by one per image.
CheckSeed(filter, hh, w, bppIndex) ==
  ((filter * 19 + (hh - 1)) * 99 + (w - 1)) * 6 + (bppIndex - 1)

---------------------------------------------------------------------------
(* Memory of one kernel call.  k.buf is the buffer, k.base its address,    *)
(* k.g the byte a read outside the buffer yields, k.bad whether the call   *)
(* has accessed memory outside the buffer.                                 *)

\* A 16-byte aligned address as malloc returns it.
HeapBase == 16 * 256

InBuf(k, a) == a >= k.base /\ a < k.base + Len(k.buf)

\* The byte at address a.
Ld(k, a) == IF InBuf(k, a) THEN k.buf[a - k.base + 1] ELSE k.g

\* The addresses of S that hold the filter byte of a row; a row takes
\* k.bpl + 1 bytes, k.bpl being the bpl the kernel has decremented.
FilterAddrs(k, S) == {a \in S : InBuf(k, a) /\ (a - k.base) % (k.bpl + 1) = 0}

\* The reads of the addresses of S are counted in k.frd, which has for
\* every row the number of reads of its filter byte so far.
Noted(k, S) ==
  IF FilterAddrs(k, S) = {} THEN k
  ELSE [k EXCEPT !.frd = [y \in DOMAIN @ |->
                            IF k.base + (y - 1) * (k.bpl + 1) \in S THEN @[y] + 1
                            ELSE @[y]]]

\* The bytes at the addresses of S are read: outside the buffer that is
\* undefined behaviour.
Touch(k, S) ==
  IF \A a \in S : InBuf(k, a) THEN Noted(k, S) ELSE [k EXCEPT !.bad = TRUE]

\* The byte v is stored at address a; k.wr counts the stores to each byte
\* of the buffer.
St(k, a, v) ==
  IF InBuf(k, a)
    THEN [k EXCEPT !.buf[a - k.base + 1] = v, !.wr[a - k.base + 1] = @ + 1]
  ELSE [k EXCEPT !.bad = TRUE]

\* The top of the row loop that reads the filter byte a second time.
FilterReadTwice(k) ==
  LET o == k.p - k.base
  IN  [Touch(Touch(k, {k.p}), {k.p})
         EXCEPT !.rows = Append(@, o \div (k.bpl + 1)),
                !.fresh = @ /\ \A j \in (o + 2)..(o + 1 + k.bpl) :
                                 j \in DOMAIN k.wr => k.wr[j] = 0]

\* uint32_t filter = *p (the ++ is left to the caller): the filter byte of
\* the row at p is read.  k.rows takes the number of the row, and k.fresh
\* stays true as long as no pixel byte of a row was stored to before the
\* row's filter byte was read here.
FilterRead(k) ==
  LET o == k.p - k.base
  IN  [Touch(k, {k.p}) EXCEPT
         !.rows = Append(@, o \div (k.bpl + 1)),
         !.fresh = @ /\ \A j \in (o + 2)..(o + 1 + k.bpl) :
                          j \in DOMAIN k.wr => k.wr[j] = 0]

\* What a read outside the buffer can yield when it does not fault.
GarbageBytes == {0, 255}

---------------------------------------------------------------------------
(* OptDePngFilterRef.                                                      *)

\* The None case adding one to every byte it passes.
RefNoneInc(k) ==
  Repeat(LAMBDA x : [St(x, x.p, Sum(Ld(x, x.p), 1)) EXCEPT !.p = @ + 1], k, k.bpl)

\* case kPngFilterNone: p += bpl;
RefNone(k) == [k EXCEPT !.p = @ + k.bpl]

\* RefSubStep adding the byte after p[0] instead of p[0].
RefSubStepNext(k, bppA) ==
  [St(Touch(k, {k.p + bppA, k.p + 1}), k.p + bppA,
                      Sum(Ld(k, k.p + bppA), Ld(k, k.p + 1)))
                    EXCEPT !.p = @ + 1]

\* for (i = bpl - bpp; i != 0; i--, p++) p[bpp] = Sum(p[bpp], p[0]);
RefSubStep(k, bppA) ==
  [St(Touch(k, {k.p + bppA, k.p}), k.p + bppA,
                      Sum(Ld(k, k.p + bppA), Ld(k, k.p)))
                    EXCEPT !.p = @ + 1]

RefSubLoop(k, i, bppA) == Repeat(LAMBDA x : RefSubStep(x, bppA), k, i)

\* RefUpStep adding half of u[0].
RefUpStepHalf(k) ==
  [St(Touch(k, {k.p, k.u}), k.p, Sum(Ld(k, k.p), Ld(k, k.u) \div 2))
                   EXCEPT !.p = @ + 1, !.u = @ + 1]

\* for (i = bpl; i != 0; i--, p++, u++) p[0] = Sum(p[0], u[0]);
RefUpStep(k) ==
  [St(Touch(k, {k.p, k.u}), k.p, Sum(Ld(k, k.p), Ld(k, k.u)))
                   EXCEPT !.p = @ + 1, !.u = @ + 1]

RefUpLoop(k, i) == Repeat(RefUpStep, k, i)

\* for (i = 0; i < bpp; i++) p[i] = Sum(p[i], u[i] >> 1);
RECURSIVE RefAvgHead(_, _, _)
RefAvgHead(k, i, bppA) ==
  IF ~(i < bppA) THEN k
  ELSE RefAvgHead(St(Touch(k, {k.p + i, k.u + i}), k.p + i,
                     Sum(Ld(k, k.p + i), Ld(k, k.u + i) \div 2)), i + 1, bppA)

\* for (i = bpl - bpp; i != 0; i--, p++, u++) p[bpp] = Sum(p[bpp], Avg(p[0], u[0]));
RefAvgStep(k, bppA) ==
  [St(Touch(k, {k.p + bppA, k.p, k.u}), k.p + bppA,
                      Sum(Ld(k, k.p + bppA), Avg(Ld(k, k.p), Ld(k, k.u))))
                    EXCEPT !.p = @ + 1, !.u = @ + 1]

RefAvgLoop(k, i, bppA) == Repeat(LAMBDA x : RefAvgStep(x, bppA), k, i)

\* for (i = 0; i < bpp; i++) p[i] = Sum(p[i], u[i]);
RECURSIVE RefPaethHead(_, _, _)
RefPaethHead(k, i, bppA) ==
  IF ~(i < bppA) THEN k
  ELSE RefPaethHead(St(Touch(k, {k.p + i, k.u + i}), k.p + i,
                       Sum(Ld(k, k.p + i), Ld(k, k.u + i))), i + 1, bppA)

\* for (i = bpl - bpp; i != 0; i--, p++, u++)
\*   p[bpp] = Sum(p[bpp], PaethRef(p[0], u[bpp], u[0]));
RefPaethStep(k, bppA) ==
  [St(Touch(k, {k.p + bppA, k.p, k.u + bppA, k.u}), k.p + bppA,
                        Sum(Ld(k, k.p + bppA),
                            PaethRef(Ld(k, k.p), Ld(k, k.u + bppA), Ld(k, k.u))))
                      EXCEPT !.p = @ + 1, !.u = @ + 1]

RefPaethLoop(k, i, bppA) == Repeat(LAMBDA x : RefPaethStep(x, bppA), k, i)

\* The pass that takes a filter byte of no case for None and passes the row.
RefRowSkipBad(k, bppA) ==
  LET filter == Ld(k, k.p)
      k0 == [FilterRead(k) EXCEPT !.p = @ + 1]
      k1 == CASE filter = kPngFilterNone -> RefNone(k0)
              [] filter = kPngFilterSub ->
                   [RefSubLoop(k0, k.bpl - bppA, bppA) EXCEPT !.p = @ + bppA]
              [] filter = kPngFilterUp -> RefUpLoop(k0, k.bpl)
              [] filter = kPngFilterAvg ->
                   [RefAvgLoop([RefAvgHead(k0, 0, bppA) EXCEPT !.u = @ + bppA],
                               k.bpl - bppA, bppA) EXCEPT !.p = @ + bppA]
              [] filter = kPngFilterPaeth ->
                   [RefPaethLoop(RefPaethHead(k0, 0, bppA), k.bpl - bppA, bppA)
                      EXCEPT !.p = @ + bppA]
              [] OTHER -> RefNone(k0)
  IN  [k1 EXCEPT !.u = k1.p - k.bpl, !.y = @ - 1]

\* One pass of the do { ... } while (--y != 0) loop; k.bpl is bpl - 1.
RefRow(k, bppA) ==
  LET filter == Ld(k, k.p)
      k0 == [FilterRead(k) EXCEPT !.p = @ + 1]
      k1 == CASE filter = kPngFilterNone -> RefNone(k0)
              [] filter = kPngFilterSub ->
                   [RefSubLoop(k0, k.bpl - bppA, bppA) EXCEPT !.p = @ + bppA]
              [] filter = kPngFilterUp -> RefUpLoop(k0, k.bpl)
              [] filter = kPngFilterAvg ->
                   [RefAvgLoop([RefAvgHead(k0, 0, bppA) EXCEPT !.u = @ + bppA],
                               k.bpl - bppA, bppA) EXCEPT !.p = @ + bppA]
              [] filter = kPngFilterPaeth ->
                   [RefPaethLoop(RefPaethHead(k0, 0, bppA), k.bpl - bppA, bppA)
                      EXCEPT !.p = @ + bppA]
              [] OTHER -> k0
  IN  [k1 EXCEPT !.u = k1.p - k.bpl, !.y = @ - 1]

\* The state of OptDePngFilterRef(p, h, bpp, bpl) at its do.
OptDePngFilterRef(k, p, hh, bppA, bplA) ==
  [k EXCEPT !.pc = "row", !.p = p, !.y = hh, !.u = NULL, !.bpl = bplA - 1,
            !.frd = [y \in 1..hh |-> 0]]

---------------------------------------------------------------------------
(* OptDePngFilterOpt: OptDePngFilterOpt_T<bpp> and its dispatch on bpp.    *)

\* for (i = bpl - bpp; i != 0; i--, p++) p[bpp] = Sum(p[bpp], p[0]);
OptSubStep(k, bppA) ==
  [St(Touch(k, {k.p + bppA, k.p}), k.p + bppA,
                      Sum(Ld(k, k.p + bppA), Ld(k, k.p)))
                    EXCEPT !.p = @ + 1]

OptSubLoop(k, i, bppA) == Repeat(LAMBDA x : OptSubStep(x, bppA), k, i)

\* The Up loop body that stores its byte twice.
OptUpStepTwice(k) ==
  [St(St(Touch(k, {k.p, k.u}), k.p, Ld(k, k.p)), k.p, Sum(Ld(k, k.p), Ld(k, k.u)))
     EXCEPT !.p = @ + 1, !.u = @ + 1]

\* for (i = bpl; i != 0; i--, p++, u++) p[0] = Sum(p[0], u[0]);
OptUpStep(k) ==
  [St(Touch(k, {k.p, k.u}), k.p, Sum(Ld(k, k.p), Ld(k, k.u)))
                   EXCEPT !.p = @ + 1, !.u = @ + 1]

OptUpLoop(k, i) == Repeat(OptUpStep, k, i)

\* for (i = 0; i < bpp; i++) p[i] = Sum(p[i], u[i] >> 1);
RECURSIVE OptAvgHead(_, _, _)
OptAvgHead(k, i, bppA) ==
  IF ~(i < bppA) THEN k
  ELSE OptAvgHead(St(Touch(k, {k.p + i, k.u + i}), k.p + i,
                     Sum(Ld(k, k.p + i), Ld(k, k.u + i) \div 2)), i + 1, bppA)

\* OptAvgStep with the average rounded up.
OptAvgStepCeil(k, bppA) ==
  [St(Touch(k, {k.p + bppA, k.p, k.u}), k.p + bppA,
                      Sum(Ld(k, k.p + bppA), (Ld(k, k.p) + Ld(k, k.u) + 1) \div 2))
                    EXCEPT !.p = @ + 1, !.u = @ + 1]

\* for (i = bpl - bpp; i != 0; i--, p++, u++) p[bpp] = Sum(p[bpp], Avg(p[0], u[0]));
OptAvgStep(k, bppA) ==
  [St(Touch(k, {k.p + bppA, k.p, k.u}), k.p + bppA,
                      Sum(Ld(k, k.p + bppA), Avg(Ld(k, k.p), Ld(k, k.u))))
                    EXCEPT !.p = @ + 1, !.u = @ + 1]

OptAvgLoop(k, i, bppA) == Repeat(LAMBDA x : OptAvgStep(x, bppA), k, i)

\* for (i = 0; i < bpp; i++) p[i] = Sum(p[i], u[i]);
RECURSIVE OptPaethHead(_, _, _)
OptPaethHead(k, i, bppA) ==
  IF ~(i < bppA) THEN k
  ELSE OptPaethHead(St(Touch(k, {k.p + i, k.u + i}), k.p + i,
                       Sum(Ld(k, k.p + i), Ld(k, k.u + i))), i + 1, bppA)

\* for (i = bpl - bpp; i != 0; i--, p++, u++)
\*   p[bpp] = Sum(p[bpp], PaethRef(p[0], u[bpp], u[0]));
OptPaethStep(k, bppA) ==
  [St(Touch(k, {k.p + bppA, k.p, k.u + bppA, k.u}), k.p + bppA,
                        Sum(Ld(k, k.p + bppA),
                            PaethRef(Ld(k, k.p), Ld(k, k.u + bppA), Ld(k, k.u))))
                      EXCEPT !.p = @ + 1, !.u = @ + 1]

OptPaethLoop(k, i, bppA) == Repeat(LAMBDA x : OptPaethStep(x, bppA), k, i)

\* One pass of the do { ... } while (--y != 0) loop; k.bpl is bpl - 1.
OptRow(k, bppA) ==
  LET filter == Ld(k, k.p)
      k0 == [FilterRead(k) EXCEPT !.p = @ + 1]
      k1 == CASE filter = kPngFilterNone -> [k0 EXCEPT !.p = @ + k.bpl]
              [] filter = kPngFilterSub ->
                   [OptSubLoop(k0, k.bpl - bppA, bppA) EXCEPT !.p = @ + bppA]
              [] filter = kPngFilterUp -> OptUpLoop(k0, k.bpl)
              [] filter = kPngFilterAvg ->
                   [OptAvgLoop([OptAvgHead(k0, 0, bppA) EXCEPT !.u = @ + bppA],
                               k.bpl - bppA, bppA) EXCEPT !.p = @ + bppA]
              [] filter = kPngFilterPaeth ->
                   [OptPaethLoop(OptPaethHead(k0, 0, bppA), k.bpl - bppA, bppA)
                      EXCEPT !.p = @ + bppA]
              [] OTHER -> k0
  IN  [k1 EXCEPT !.u = k1.p - k.bpl, !.y = @ - 1]

\* The state of OptDePngFilterOpt_T<bpp>(p, h, bpl) at its do.
OptDePngFilterOpt_T(k, p, hh, bplA) ==
  [k EXCEPT !.pc = "row", !.p = p, !.y = hh, !.u = NULL, !.bpl = bplA - 1,
            !.frd = [y \in 1..hh |-> 0]]

\* The dispatch that hands every bpp to the template.
OptDePngFilterOptAny(k, p, hh, bppA, bplA) == OptDePngFilterOpt_T(k, p, hh, bplA)

\* switch (bpp): a bpp that is no case label returns at once.
OptDePngFilterOpt(k, p, hh, bppA, bplA) ==
  IF bppA \in {1, 2, 3, 4, 6, 8} THEN OptDePngFilterOpt_T(k, p, hh, bplA)
  ELSE [k EXCEPT !.pc = "ret"]

---------------------------------------------------------------------------
(* SSE2.  A 128-bit register is a tuple of 16 bytes, lowest byte first;    *)
(* lane k (from 0) of register a is a[k + 1].  A 32-bit scalar that may    *)
(* not fit the model's integers is a tuple of its 4 bytes, lowest first.   *)

\* The register whose byte k is F(k).
V16(F(_)) ==
  << F(0), F(1), F(2), F(3), F(4), F(5), F(6), F(7),
     F(8), F(9), F(10), F(11), F(12), F(13), F(14), F(15) >>

\* Byte lane k, 16-bit lane j, and the 16-bit lane read as signed.
U8(a, k) == a[k + 1]
U16(a, j) == a[2 * j + 1] + 256 * a[2 * j + 2]
I16(a, j) == IF U16(a, j) >= 32768 THEN U16(a, j) - 65536 ELSE U16(a, j)

\* The register whose 16-bit lane j is F(j) modulo 2^16.
V8W(F(_)) ==
  V16(LAMBDA k : IF k % 2 = 0 THEN (F(k \div 2) % 65536) % 256
                 ELSE (F(k \div 2) % 65536) \div 256)

\* The 4 bytes of the int32 x, lowest first.
Dword(x) == << x % 256, (x \div 256) % 256, (x \div 65536) % 256, (x \div 16777216) % 256 >>

\* d & e on 32-bit scalars.
DwordAnd(d, e) == << BitAnd(d[1], e[1]), BitAnd(d[2], e[2]), BitAnd(d[3], e[3]), BitAnd(d[4], e[4]) >>

mm_setzero_si128 == V16(LAMBDA k : 0)
mm_set1_epi16(x) == V8W(LAMBDA j : x)
mm_set1_epi32(x) == V16(LAMBDA k : Dword(x)[(k % 4) + 1])
mm_setr_epi32(e0, e1, e2, e3) ==
  V16(LAMBDA k : Dword(<<e0, e1, e2, e3>>[(k \div 4) + 1])[(k % 4) + 1])

\* d is the 32-bit scalar as 4 bytes.
mm_cvtsi32_si128(d) == V16(LAMBDA k : IF k < 4 THEN d[k + 1] ELSE 0)

\* The low 32 bits as a scalar; the callers' lanes keep it below 2^31.
mm_cvtsi128_si32(a) == U16(a, 0) + 65536 * U16(a, 1)

mm_add_epi8(a, b) == V16(LAMBDA k : (U8(a, k) + U8(b, k)) % 256)
mm_add_epi16(a, b) == V8W(LAMBDA j : U16(a, j) + U16(b, j))
mm_sub_epi16(a, b) == V8W(LAMBDA j : U16(a, j) - U16(b, j))

mm_slli_si128(a, n) == V16(LAMBDA k : IF k >= n THEN U8(a, k - n) ELSE 0)
mm_srli_si128(a, n) == V16(LAMBDA k : IF k + n <= 15 THEN U8(a, k + n) ELSE 0)

mm_slli_epi16(a, n) == V8W(LAMBDA j : U16(a, j) * 2^n)
mm_srli_epi16(a, n) == V8W(LAMBDA j : U16(a, j) \div 2^n)
mm_srai_epi16(a, n) == V8W(LAMBDA j : I16(a, j) \div 2^n)

\* Shifts of the 32-bit and 64-bit lanes by whole bytes (n a multiple of 8).
mm_srli_epi32(a, n) ==
  V16(LAMBDA k : IF (k % 4) + (n \div 8) <= 3 THEN U8(a, k + (n \div 8)) ELSE 0)
mm_slli_epi64(a, n) ==
  V16(LAMBDA k : IF (k % 8) >= (n \div 8) THEN U8(a, k - (n \div 8)) ELSE 0)
mm_srli_epi64(a, n) ==
  V16(LAMBDA k : IF (k % 8) + (n \div 8) <= 7 THEN U8(a, k + (n \div 8)) ELSE 0)

mm_min_epi16(a, b) == V8W(LAMBDA j : Min(I16(a, j), I16(b, j)))
mm_max_epi16(a, b) == V8W(LAMBDA j : Max(I16(a, j), I16(b, j)))
\* The high 16 bits of the 32-bit product, computed without leaving 31 bits.
\* The low halves of the 16-bit products.
mm_mulhi_epu16Low(a, b) == V8W(LAMBDA j : U16(a, j) * U16(b, j))

mm_mulhi_epu16(a, b) ==
  V8W(LAMBDA j : (U8(a, 2 * j + 1) * U16(b, j) + (U8(a, 2 * j) * U16(b, j)) \div 256) \div 256)

mm_and_si128(a, b) == V16(LAMBDA k : BitAnd(U8(a, k), U8(b, k)))
\* (~a) & b
mm_andnot_si128(a, b) == V16(LAMBDA k : BitAnd(255 - U8(a, k), U8(b, k)))
\* a | b = a + b - (a & b)
mm_or_si128(a, b) == V16(LAMBDA k : U8(a, k) + U8(b, k) - BitAnd(U8(a, k), U8(b, k)))

mm_unpacklo_epi8(a, b) == V16(LAMBDA k : IF k % 2 = 0 THEN U8(a, k \div 2) ELSE U8(b, k \div 2))
mm_unpackhi_epi8(a, b) ==
  V16(LAMBDA k : IF k % 2 = 0 THEN U8(a, 8 + (k \div 2)) ELSE U8(b, 8 + (k \div 2)))
mm_unpackhi_epi16(a, b) ==
  V16(LAMBDA k : IF (k \div 2) % 2 = 0 THEN U8(a, 8 + 2 * (k \div 4) + (k % 2))
                 ELSE U8(b, 8 + 2 * (k \div 4) + (k % 2)))
mm_unpackhi_epi32(a, b) ==
  V16(LAMBDA k : IF (k \div 4) % 2 = 0 THEN U8(a, 8 + 4 * (k \div 8) + (k % 4))
                 ELSE U8(b, 8 + 4 * (k \div 8) + (k % 4)))

\* _MM_SHUFFLE(z, y, x, w): lane 0 takes source lane w, lane 1 x, lane 2 y,
\* lane 3 z.
MM_SHUFFLE(z, y, x, w) == <<w, x, y, z>>
mm_shuffle_epi32(a, imm) == V16(LAMBDA k : U8(a, 4 * imm[(k \div 4) + 1] + (k % 4)))
mm_shufflelo_epi16(a, imm) ==
  V16(LAMBDA k : IF k < 8 THEN U8(a, 2 * imm[(k \div 2) + 1] + (k % 2)) ELSE U8(a, k))
mm_shufflehi_epi16(a, imm) ==
  V16(LAMBDA k : IF k < 8 THEN U8(a, k) ELSE U8(a, 8 + 2 * imm[((k - 8) \div 2) + 1] + (k % 2)))

\* Signed 16-bit lanes saturated to unsigned bytes.
SatU8(x) == IF x < 0 THEN 0 ELSE IF x > 255 THEN 255 ELSE x
mm_packus_epi16(a, b) == V16(LAMBDA k : IF k < 8 THEN SatU8(I16(a, k)) ELSE SatU8(I16(b, k - 8)))

\* The 8 bytes of the product of the 32-bit lanes at bytes o..o+3 of a and b:
\* column sums with the carry passed upwards.
RECURSIVE MulCarry(_, _, _, _)
MulCarry(a, b, o, n) ==
  LET col == LET S == {i \in 0..3 : n - i >= 0 /\ n - i <= 3}
                 RECURSIVE Add(_)
                 Add(T) == IF T = {} THEN 0
                           ELSE LET i == CHOOSE x \in T : TRUE
                                IN  U8(a, o + i) * U8(b, o + n - i) + Add(T \ {i})
             IN  Add(S)
  IN  col + (IF n = 0 THEN 0 ELSE MulCarry(a, b, o, n - 1) \div 256)

\* Unsigned products of the 32-bit lanes 0 and 2, as 64-bit lanes.
mm_mul_epu32(a, b) == V16(LAMBDA k : MulCarry(a, b, 8 * (k \div 8), k % 8) % 256)

\* Loads: the bytes come from Ld, the access itself is recorded by Access.
mm_load_si128(k, a) == V16(LAMBDA j : Ld(k, a + j))
mm_loadu_si128(k, a) == V16(LAMBDA j : Ld(k, a + j))
mm_loadl_epi64(k, a) == V16(LAMBDA j : IF j < 8 THEN Ld(k, a + j) ELSE 0)
\* reinterpret_cast<uint32_t*>(a)[0] and reinterpret_cast<uint16_t*>(a)[0]
LoadU32(k, a) == << Ld(k, a), Ld(k, a + 1), Ld(k, a + 2), Ld(k, a + 3) >>
LoadU16(k, a) == << Ld(k, a), Ld(k, a + 1), 0, 0 >>

\* The n bytes at address a are pixel bytes of one row: of the row whose
\* filter byte was read last when a is at p or after it (an access through
\* p), of the row before it when a is below p (an access through u, which
\* stays a row below p).
InRow(k, a, n) ==
  LET row == k.rows[Len(k.rows)]
      first == k.base + row * (k.bpl + 1) + 1
  IN  IF a >= k.p THEN a >= first /\ a + n - 1 <= first + k.bpl - 1
      ELSE row >= 1 /\ a >= first - (k.bpl + 1) /\ a + n - 1 <= first - 2

\* An access of n bytes at address a that needs a to be a multiple of al:
\* misaligned or outside the buffer it is undefined behaviour.
Access(k, a, n, al) ==
  IF a % al = 0 /\ InBuf(k, a) /\ InBuf(k, a + n - 1)
    THEN [Noted(k, a..(a + n - 1)) EXCEPT !.inrow = @ /\ InRow(k, a, n)]
  ELSE [k EXCEPT !.bad = TRUE, !.aligned = @ /\ a % al = 0]

\* The first n bytes of register r stored at address a.
StoreBytes(k, a, n, al, r) ==
  IF a % al = 0 /\ InBuf(k, a) /\ InBuf(k, a + n - 1)
    THEN [k EXCEPT !.buf = SubSeq(@, 1, a - k.base) \o SubSeq(r, 1, n)
                           \o SubSeq(@, a - k.base + n + 1, Len(@)),
                   !.wr = [j \in DOMAIN @ |->
                             IF j > a - k.base /\ j <= a - k.base + n THEN @[j] + 1
                             ELSE @[j]],
                   !.inrow = @ /\ a >= k.p /\ InRow(k, a, n)]
    ELSE [k EXCEPT !.bad = TRUE, !.aligned = @ /\ a % al = 0]

mm_store_si128(k, a, r) == StoreBytes(k, a, 16, 16, r)
\* The 8-byte store that stores the whole register.
mm_storel_epi64Wide(k, a, r) == StoreBytes(k, a, 16, 1, r)
mm_storel_epi64(k, a, r) == StoreBytes(k, a, 8, 1, r)

---------------------------------------------------------------------------
(* OptDePngFilterSSE2: OptDePngFilterSSE2_T<bpp>.  The record of the call  *)
(* has, besides the fields of the scalar kernels, the row's filter, the    *)
(* counter i and the registers that live across the iterations of a vector *)
(* loop: p0 (Sub), t0 and t1 (Avg), pz and uz (Paeth).                     *)

\* PNG_SSE_SLL_ADDB_1X shifting towards the low bytes.
SllAddbRight(P0, Shift) == mm_add_epi8(P0, mm_srli_si128(P0, Shift))

PNG_SSE_SLL_ADDB_1X(P0, Shift) == mm_add_epi8(P0, mm_slli_si128(P0, Shift))

\* The shift schedule without its last shift.
SubShiftsNoLast(bppA) ==
  CASE bppA = 1 -> <<1, 2, 4>>
    [] bppA = 2 -> <<2, 4>>
    [] bppA = 3 -> <<3, 6>>
    [] bppA = 4 -> <<4>>
    [] bppA = 6 -> <<6>>
    [] bppA = 8 -> <<>>

\* The shifts of the PNG_SSE_SLL_ADDB lines of the Sub loops of <bpp>, in
\* the order of the code.
SubShifts(bppA) ==
  CASE bppA = 1 -> <<1, 2, 4, 8>>
    [] bppA = 2 -> <<2, 4, 8>>
    [] bppA = 3 -> <<3, 6, 12>>
    [] bppA = 4 -> <<4, 8>>
    [] bppA = 6 -> <<6, 12>>
    [] bppA = 8 -> <<8>>

\* The PNG_SSE_SLL_ADDB lines of <bpp> applied to P in that order.
RECURSIVE SllAddb(_, _, _)
SllAddb(P, S, n) ==
  IF n > Len(S) THEN P ELSE SllAddb(PNG_SSE_SLL_ADDB_1X(P, S[n]), S, n + 1)

SubPrefix(P, bppA) == SllAddb(P, SubShifts(bppA), 1)

\* for (i -= j; j != 0; j--, p++) p[bpp] = Sum(p[bpp], p[0]);
SSE2SubStep(k, bppA) ==
  [St(Touch(k, {k.p + bppA, k.p}), k.p + bppA,
                      Sum(Ld(k, k.p + bppA), Ld(k, k.p)))
                    EXCEPT !.p = @ + 1]

SSE2SubScalar(k, n, bppA) == Repeat(LAMBDA x : SSE2SubStep(x, bppA), k, n)

\* The register p0 before the 64-byte loop: the bpp bytes at p.
SSE2SubCarry(k, bppA) ==
  CASE bppA = 1 -> [Touch(k, {k.p}) EXCEPT !.p0 = mm_cvtsi32_si128(Dword(Ld(k, k.p)))]
    [] bppA = 2 -> [Access(k, k.p, 2, 1) EXCEPT !.p0 = mm_cvtsi32_si128(LoadU16(k, k.p))]
    [] bppA = 3 -> [Access(k, k.p, 4, 1) EXCEPT
                      !.p0 = mm_cvtsi32_si128(DwordAnd(LoadU32(k, k.p), Dword(16777215)))]
    [] bppA = 4 -> [Access(k, k.p, 4, 1) EXCEPT !.p0 = mm_cvtsi32_si128(LoadU32(k, k.p))]
    [] bppA = 6 -> [Access(k, k.p, 8, 1) EXCEPT
                      !.p0 = mm_srli_epi64(mm_slli_epi64(mm_loadl_epi64(k, k.p), 16), 16)]
    [] bppA = 8 -> [Access(k, k.p, 8, 1) EXCEPT !.p0 = mm_loadl_epi64(k, k.p)]

\* The end of an iteration of a 64-byte Sub loop: the four stores at
\* p + bpp, the new p0, p += 64, i -= 64.
SSE2SubStore64(k, bppA, r0, r1, r2, r3) ==
  LET a == k.p + bppA
      k1 == mm_store_si128(mm_store_si128(mm_store_si128(mm_store_si128(
              Access(k, a, 64, 16), a, r0), a + 16, r1), a + 32, r2), a + 48, r3)
  IN  [k1 EXCEPT !.p0 = mm_srli_si128(r3, 16 - bppA), !.p = @ + 64, !.i = @ - 64]

\* One iteration of while (i >= 64) of Sub, <1> and <2>.
SSE2Sub64_12(k, bppA) ==
  LET a == k.p + bppA
      sh == 16 - bppA
      x0 == SubPrefix(mm_add_epi8(k.p0, mm_load_si128(k, a)), bppA)
      x2 == SubPrefix(mm_load_si128(k, a + 32), bppA)
      x1 == SubPrefix(mm_add_epi8(mm_load_si128(k, a + 16), mm_srli_si128(x0, sh)), bppA)
      x3 == SubPrefix(mm_add_epi8(mm_load_si128(k, a + 48), mm_srli_si128(x2, sh)), bppA)
      w1 == IF bppA = 1 THEN mm_unpackhi_epi8(x1, x1) ELSE x1
      b1 == mm_shuffle_epi32(mm_unpackhi_epi16(w1, w1), MM_SHUFFLE(3, 3, 3, 3))
  IN  SSE2SubStore64(k, bppA, x0, x1, mm_add_epi8(x2, b1), mm_add_epi8(x3, b1))

\* One iteration of while (i >= 64) of Sub, <3>.
SSE2Sub64_3(k) ==
  LET a == k.p + 3
      ext3b == mm_set1_epi32(16777217)
      x0 == SubPrefix(mm_add_epi8(k.p0, mm_load_si128(k, a)), 3)
      x2 == SubPrefix(mm_load_si128(k, a + 32), 3)
      x1 == SubPrefix(mm_add_epi8(mm_load_si128(k, a + 16), mm_srli_si128(x0, 13)), 3)
      x3 == SubPrefix(mm_add_epi8(mm_load_si128(k, a + 48), mm_srli_si128(x2, 13)), 3)
      q0 == mm_mul_epu32(mm_srli_epi32(mm_shuffle_epi32(x1, MM_SHUFFLE(3, 3, 3, 3)), 8), ext3b)
      q1 == mm_shufflehi_epi16(mm_shufflelo_epi16(q0, MM_SHUFFLE(0, 2, 1, 0)),
                               MM_SHUFFLE(1, 0, 2, 1))
      q2 == mm_shuffle_epi32(q1, MM_SHUFFLE(1, 3, 2, 1))
  IN  SSE2SubStore64(k, 3, x0, x1, mm_add_epi8(x2, q1), mm_add_epi8(q2, x3))

\* One iteration of while (i >= 64) of Sub, <4>.
SSE2Sub64_4(k) ==
  LET a == k.p + 4
      x0 == SubPrefix(mm_add_epi8(k.p0, mm_load_si128(k, a)), 4)
      x2 == SubPrefix(mm_load_si128(k, a + 32), 4)
      x1 == SubPrefix(mm_add_epi8(mm_load_si128(k, a + 16), mm_srli_si128(x0, 12)), 4)
      x3 == SubPrefix(mm_add_epi8(mm_load_si128(k, a + 48), mm_srli_si128(x2, 12)), 4)
      q0 == mm_shuffle_epi32(x1, MM_SHUFFLE(3, 3, 3, 3))
  IN  SSE2SubStore64(k, 4, x0, x1, mm_add_epi8(x2, q0), mm_add_epi8(q0, x3))

\* One iteration of while (i >= 64) of Sub, <6>.
SSE2Sub64_6(k) ==
  LET a == k.p + 6
      x0 == SubPrefix(mm_add_epi8(k.p0, mm_load_si128(k, a)), 6)
      x2 == SubPrefix(mm_load_si128(k, a + 32), 6)
      x1 == SubPrefix(mm_add_epi8(mm_load_si128(k, a + 16), mm_srli_si128(x0, 10)), 6)
      x3 == SubPrefix(mm_add_epi8(mm_load_si128(k, a + 48), mm_srli_si128(x2, 10)), 6)
      q0 == mm_shuffle_epi32(x1, MM_SHUFFLE(3, 2, 3, 2))
      q1 == mm_shufflehi_epi16(mm_shufflelo_epi16(q0, MM_SHUFFLE(1, 3, 2, 1)),
                               MM_SHUFFLE(2, 1, 3, 2))
      q2 == mm_shuffle_epi32(q1, MM_SHUFFLE(1, 3, 2, 1))
  IN  SSE2SubStore64(k, 6, x0, x1, mm_add_epi8(x2, q1), mm_add_epi8(q2, x3))

\* One iteration of while (i >= 64) of Sub, <8>.
SSE2Sub64_8(k) ==
  LET a == k.p + 8
      x0 == SubPrefix(mm_add_epi8(k.p0, mm_load_si128(k, a)), 8)
      x2 == SubPrefix(mm_load_si128(k, a + 32), 8)
      t2 == mm_shuffle_epi32(x2, MM_SHUFFLE(3, 2, 3, 2))
      x1 == SubPrefix(mm_add_epi8(mm_load_si128(k, a + 16), mm_srli_si128(x0, 8)), 8)
      x3 == mm_add_epi8(SubPrefix(mm_load_si128(k, a + 48), 8), t2)
      q0 == mm_shuffle_epi32(x1, MM_SHUFFLE(3, 2, 3, 2))
  IN  SSE2SubStore64(k, 8, x0, x1, mm_add_epi8(x2, q0), mm_add_epi8(q0, x3))

SSE2Sub64(k, bppA) ==
  CASE bppA \in {1, 2} -> SSE2Sub64_12(k, bppA)
    [] bppA = 3 -> SSE2Sub64_3(k)
    [] bppA = 4 -> SSE2Sub64_4(k)
    [] bppA = 6 -> SSE2Sub64_6(k)
    [] bppA = 8 -> SSE2Sub64_8(k)

\* One iteration of while (i >= 16) of Sub.
SSE2Sub16(k, bppA) ==
  LET a == k.p + bppA
      x0 == SubPrefix(mm_add_epi8(k.p0, mm_load_si128(k, a)), bppA)
      k1 == mm_store_si128(Access(k, a, 16, 16), a, x0)
  IN  [k1 EXCEPT !.p0 = mm_srli_si128(x0, 16 - bppA), !.p = @ + 16, !.i = @ - 16]

\* for (...; j != 0; j--, p++, u++) p[0] = Sum(p[0], u[0]);
SSE2UpStep(k) ==
  [St(Touch(k, {k.p, k.u}), k.p, Sum(Ld(k, k.p), Ld(k, k.u)))
                   EXCEPT !.p = @ + 1, !.u = @ + 1]

SSE2UpScalar(k, n) == Repeat(SSE2UpStep, k, n)

\* One iteration of while (i >= 64) of Up.
SSE2Up64(k) ==
  LET k0 == Access(Access(k, k.u, 64, 1), k.p, 64, 16)
      R(o) == mm_add_epi8(mm_load_si128(k, k.p + o), mm_loadu_si128(k, k.u + o))
      k1 == mm_store_si128(mm_store_si128(mm_store_si128(mm_store_si128(
              k0, k.p, R(0)), k.p + 16, R(16)), k.p + 32, R(32)), k.p + 48, R(48))
  IN  [k1 EXCEPT !.p = @ + 64, !.u = @ + 64, !.i = @ - 64]

\* One iteration of while (i >= 8) of Up.
SSE2Up8(k) ==
  LET k0 == Access(Access(k, k.u, 8, 1), k.p, 8, 1)
      p0 == mm_add_epi8(mm_loadl_epi64(k, k.p), mm_loadl_epi64(k, k.u))
  IN  [mm_storel_epi64(k0, k.p, p0) EXCEPT !.p = @ + 8, !.u = @ + 8, !.i = @ - 8]

\* for (i = 0; i < bpp; i++) p[i] = Sum(p[i], u[i] >> 1);
RECURSIVE SSE2AvgHead(_, _, _)
SSE2AvgHead(k, i, bppA) ==
  IF ~(i < bppA) THEN k
  ELSE SSE2AvgHead(St(Touch(k, {k.p + i, k.u + i}), k.p + i,
                      Sum(Ld(k, k.p + i), Ld(k, k.u + i) \div 2)), i + 1, bppA)

\* for (...; j--, p++, u++) p[bpp] = Sum(p[bpp], Avg(p[0], u[0]));
SSE2AvgStep(k, bppA) ==
  [St(Touch(k, {k.p + bppA, k.p, k.u}), k.p + bppA,
                      Sum(Ld(k, k.p + bppA), Avg(Ld(k, k.p), Ld(k, k.u))))
                    EXCEPT !.p = @ + 1, !.u = @ + 1]

SSE2AvgScalar(k, n, bppA) == Repeat(LAMBDA x : SSE2AvgStep(x, bppA), k, n)

\* The values kept across the iterations of the vector loop of Avg: t0 of
\* <1>, t1 of <4>, <6> and <8>; <2> and <3> have no vector loop.
SSE2AvgCarry(k, bppA) ==
  CASE bppA = 1 -> [Touch(k, {k.p}) EXCEPT !.t0 = Ld(k, k.p)]
    [] bppA = 4 -> [Access(k, k.p, 4, 1) EXCEPT
                      !.t1 = mm_unpacklo_epi8(mm_cvtsi32_si128(LoadU32(k, k.p)),
                                              mm_setzero_si128)]
    [] bppA = 6 -> [Access(k, k.p, 8, 1) EXCEPT !.t1 = mm_loadl_epi64(k, k.p)]
    [] bppA = 8 -> [Access(k, k.p, 8, 1) EXCEPT
                      !.t1 = mm_unpacklo_epi8(mm_loadl_epi64(k, k.p), mm_setzero_si128)]
    [] OTHER -> k

\* Avg <1>, the four rounds of one iteration: round r takes t1 from the low
\* 32 bits of p0 and stores p[2r + 1] and p[2r + 2]; t0 is kept in k.t0.
RECURSIVE SSE2Avg8Round(_, _, _)
SSE2Avg8Round(k, p0, r) ==
  IF r = 4 THEN k
  ELSE LET t1 == mm_cvtsi128_si32(p0)
           t0a == ((k.t0 + t1) \div 2) % 256
           t0b == ((t0a + t1 \div 65536) \div 2) % 256
           k1 == St(St(k, k.p + 2 * r + 1, t0a % 256), k.p + 2 * r + 2, t0b % 256)
       IN  SSE2Avg8Round([k1 EXCEPT !.t0 = t0b], mm_srli_si128(p0, 4), r + 1)

\* One iteration of while (i >= 8) of Avg, <1>.
SSE2Avg8_1(k) ==
  LET zero == mm_setzero_si128
      k0 == Access(Access(k, k.p + 1, 8, 1), k.u, 8, 1)
      p0 == mm_add_epi16(
              mm_slli_epi16(mm_unpacklo_epi8(mm_loadl_epi64(k, k.p + 1), zero), 1),
              mm_unpacklo_epi8(mm_loadl_epi64(k, k.u), zero))
  IN  [SSE2Avg8Round(k0, p0, 0) EXCEPT !.p = @ + 8, !.u = @ + 8, !.i = @ - 8]

\* The mask of Avg <4> with its lowest bit cleared, as the comments beside
\* the two and instructions name it.
Mask01FE(r) == mm_and_si128(r, mm_set1_epi16(510))

\* p0 = _mm_and_si128(p0, m01FF), m01FF = _mm_set1_epi16(0x01FF).
Mask01FF(r) == mm_and_si128(r, mm_set1_epi16(511))

\* One iteration of while (i >= 16) of Avg <4>.  k.avg keeps the 16-bit
\* sums of the low and of the high half before and after their mask.
SSE2Avg16_4(k) ==
  LET zero == mm_setzero_si128
      m00FF == mm_set1_epi16(255)
      k0 == Access(Access(k, k.p + 4, 16, 16), k.u, 16, 1)
      L == mm_load_si128(k, k.p + 4)
      U == mm_loadu_si128(k, k.u)
      p0a == mm_add_epi16(mm_slli_epi16(mm_unpacklo_epi8(L, zero), 1), k.t1)
      p0s == mm_add_epi16(p0a, mm_unpacklo_epi8(U, zero))
      p0b == Mask01FF(p0s)
      t1a == mm_slli_si128(p0b, 8)
      p0c == mm_add_epi16(mm_slli_epi16(p0b, 1), t1a)
      p0d == mm_and_si128(mm_srli_epi16(p0c, 2), m00FF)
      p1a == mm_add_epi16(mm_slli_epi16(mm_unpackhi_epi8(L, zero), 1),
                          mm_unpackhi_epi8(U, zero))
      t1b == mm_srli_si128(p0d, 8)
      p1s == mm_add_epi16(p1a, t1b)
      p1b == Mask01FF(p1s)
      t1c == mm_add_epi16(mm_slli_si128(p1b, 8), mm_slli_epi16(p1b, 1))
      t1d == mm_and_si128(mm_srli_epi16(t1c, 2), m00FF)
      k1 == mm_store_si128(k0, k.p + 4, mm_packus_epi16(p0d, t1d))
  IN  [k1 EXCEPT !.t1 = mm_srli_si128(t1d, 8), !.p = @ + 16, !.u = @ + 16, !.i = @ - 16,
                 !.avg = [lo |-> p0s, loM |-> p0b, hi |-> p1s, hiM |-> p1b]]

\* One iteration of while (i >= 16) of Avg, <6>.
SSE2Avg16_6(k) ==
  LET zero == mm_setzero_si128
      k0 == Access(Access(k, k.p + 6, 16, 16), k.u, 16, 1)
      U == mm_loadu_si128(k, k.u)
      t1 == mm_unpacklo_epi8(k.t1, zero)
      L == mm_load_si128(k, k.p + 6)
      u0 == mm_srli_epi16(mm_add_epi16(mm_unpacklo_epi8(U, zero), t1), 1)
      p0 == mm_add_epi8(mm_unpacklo_epi8(L, zero), u0)
      u1 == mm_srli_epi16(
              mm_add_epi16(mm_unpacklo_epi8(mm_srli_si128(U, 6), zero), p0), 1)
      p1 == mm_add_epi8(mm_unpacklo_epi8(mm_srli_si128(L, 6), zero), u1)
      u2 == mm_srli_epi16(
              mm_add_epi16(mm_unpacklo_epi8(mm_srli_si128(U, 12), zero), p1), 1)
      p2 == mm_add_epi8(mm_unpacklo_epi8(mm_srli_si128(L, 12), zero), u2)
      q0 == mm_srli_si128(
              mm_slli_si128(mm_packus_epi16(mm_slli_si128(p0, 4), p1), 2), 4)
      q2 == mm_slli_si128(mm_packus_epi16(p2, p2), 12)
      out == mm_or_si128(q0, q2)
      k1 == mm_store_si128(k0, k.p + 6, out)
  IN  [k1 EXCEPT !.t1 = mm_srli_si128(out, 10), !.p = @ + 16, !.u = @ + 16, !.i = @ - 16]

\* One iteration of while (i >= 16) of Avg, <8>.
SSE2Avg16_8(k) ==
  LET zero == mm_setzero_si128
      k0 == Access(Access(k, k.p + 8, 16, 16), k.u, 16, 1)
      U == mm_loadu_si128(k, k.u)
      L == mm_load_si128(k, k.p + 8)
      u0 == mm_srli_epi16(mm_add_epi16(mm_unpacklo_epi8(U, zero), k.t1), 1)
      p0 == mm_add_epi8(mm_unpacklo_epi8(L, zero), u0)
      u1 == mm_srli_epi16(mm_add_epi16(mm_unpackhi_epi8(U, zero), p0), 1)
      p1 == mm_add_epi8(mm_unpackhi_epi8(L, zero), u1)
      k1 == mm_store_si128(k0, k.p + 8, mm_packus_epi16(p0, p1))
  IN  [k1 EXCEPT !.t1 = p1, !.p = @ + 16, !.u = @ + 16, !.i = @ - 16]

\* __m128i rcp3 = _mm_set1_epi16(0xAB << 7);
rcp3 == mm_set1_epi16(171 * 2^7)

\* _mm_mulhi_epu16(x, rcp3), the division by 3 of PNG_SSE_PAETH, in one
\* 16-bit lane holding x.
DivAB16(x) == U16(mm_mulhi_epu16(mm_set1_epi16(x), rcp3), 0)

\* Dst of PNG_SSE_PAETH(Dst, A, B, C); A, B and C are read before Dst is
\* written.
PNG_SSE_PAETH(A, B, C) ==
  LET MinAB0 == mm_min_epi16(A, B)
      MaxAB0 == mm_max_epi16(A, B)
      DivAB == mm_mulhi_epu16(mm_sub_epi16(MaxAB0, MinAB0), rcp3)
      MinAB == mm_sub_epi16(MinAB0, C)
      MaxAB == mm_sub_epi16(MaxAB0, C)
      Dst == mm_add_epi16(C,
               mm_andnot_si128(mm_srai_epi16(mm_add_epi16(DivAB, MinAB), 15), MaxAB))
  IN  mm_add_epi16(Dst,
        mm_andnot_si128(mm_srai_epi16(mm_sub_epi16(DivAB, MaxAB), 15), MinAB))

\* Paeth <1>: one pass of for (i = 0; i < bpl; i++), pz and uz being the
\* uint32_t locals.
SSE2Paeth1Step(k) ==
  LET u0 == Ld(k, k.u + k.i)
      pz == (Ld(k, k.p + k.i) + PaethOpt(k.pz, u0, k.uz)) % 256
  IN  [St(Touch(k, {k.u + k.i, k.p + k.i}), k.p + k.i, pz)
         EXCEPT !.pz = pz, !.uz = u0, !.i = @ + 1]

SSE2Paeth1(k) ==
  [Repeat(SSE2Paeth1Step, [k EXCEPT !.pz = 0, !.uz = 0, !.i = 0], k.bpl)
     EXCEPT !.p = @ + k.bpl]

\* for (i = 0; i < bpp; i++) p[i] = Sum(p[i], u[i]);
RECURSIVE SSE2PaethHead(_, _, _)
SSE2PaethHead(k, i, bppA) ==
  IF ~(i < bppA) THEN k
  ELSE SSE2PaethHead(St(Touch(k, {k.p + i, k.u + i}), k.p + i,
                        Sum(Ld(k, k.p + i), Ld(k, k.u + i))), i + 1, bppA)

\* for (...; j--, p++, u++) p[bpp] = Sum(p[bpp], PaethOpt(p[0], u[bpp], u[0]));
SSE2PaethStep(k, bppA) ==
  [St(Touch(k, {k.p + bppA, k.p, k.u + bppA, k.u}), k.p + bppA,
                        Sum(Ld(k, k.p + bppA),
                            PaethOpt(Ld(k, k.p), Ld(k, k.u + bppA), Ld(k, k.u))))
                      EXCEPT !.p = @ + 1, !.u = @ + 1]

SSE2PaethScalar(k, n, bppA) == Repeat(LAMBDA x : SSE2PaethStep(x, bppA), k, n)

\* pz and uz before the vector loop of Paeth: the pixel at p and the pixel
\* at u, as 16-bit lanes; <2> has no vector loop.
SSE2PaethCarry(k, bppA) ==
  LET zero == mm_setzero_si128
      m24 == Dword(16777215)
  IN  CASE bppA = 3 ->
             [Access(Access(k, k.p, 4, 1), k.u, 4, 1) EXCEPT
                !.pz = mm_unpacklo_epi8(
                         mm_cvtsi32_si128(DwordAnd(LoadU32(k, k.p), m24)), zero),
                !.uz = mm_unpacklo_epi8(
                         mm_cvtsi32_si128(DwordAnd(LoadU32(k, k.u), m24)), zero)]
        [] bppA = 4 ->
             [Access(Access(k, k.p, 4, 1), k.u, 4, 1) EXCEPT
                !.pz = mm_unpacklo_epi8(mm_cvtsi32_si128(LoadU32(k, k.p)), zero),
                !.uz = mm_unpacklo_epi8(mm_cvtsi32_si128(LoadU32(k, k.u)), zero)]
        [] bppA \in {6, 8} ->
             [Access(Access(k, k.p, 8, 1), k.u, 8, 1) EXCEPT
                !.pz = mm_unpacklo_epi8(mm_loadl_epi64(k, k.p), zero),
                !.uz = mm_unpacklo_epi8(mm_loadl_epi64(k, k.u), zero)]
        [] OTHER -> k

\* One iteration of while (i >= 8) of Paeth, <3>.
SSE2Paeth8_3(k) ==
  LET zero == mm_setzero_si128
      mask == mm_setr_epi32(-1, 65535, 0, 0)
      k0 == Access(Access(k, k.u + 3, 8, 1), k.p + 3, 8, 1)
      u0 == mm_unpacklo_epi8(mm_loadl_epi64(k, k.u + 3), zero)
      p0 == mm_unpacklo_epi8(mm_loadl_epi64(k, k.p + 3), zero)
      u1 == mm_srli_si128(u0, 6)
      p0a == mm_add_epi8(p0, mm_and_si128(PNG_SSE_PAETH(k.pz, u0, k.uz), mask))
      p0b == mm_add_epi8(p0a,
               mm_slli_si128(mm_and_si128(PNG_SSE_PAETH(p0a, u1, u0), mask), 6))
      p1 == mm_srli_si128(p0b, 6)
      p0c == mm_add_epi8(p0b,
               mm_slli_si128(PNG_SSE_PAETH(p1, mm_srli_si128(u1, 6), u1), 12))
      k1 == mm_storel_epi64(k0, k.p + 3, mm_packus_epi16(p0c, p0c))
  IN  [k1 EXCEPT !.pz = mm_srli_si128(p0c, 10), !.uz = mm_srli_si128(u1, 4),
                 !.p = @ + 8, !.u = @ + 8, !.i = @ - 8]

\* One iteration of while (i >= 16) of Paeth, <4>.
SSE2Paeth16_4(k) ==
  LET zero == mm_setzero_si128
      mask == mm_setr_epi32(-1, -1, 0, 0)
      k0 == Access(Access(k, k.p + 4, 16, 16), k.u + 4, 16, 1)
      L == mm_load_si128(k, k.p + 4)
      U == mm_loadu_si128(k, k.u + 4)
      p1 == mm_unpackhi_epi8(L, zero)
      p0 == mm_unpacklo_epi8(L, zero)
      u1 == mm_unpackhi_epi8(U, zero)
      u0 == mm_unpacklo_epi8(U, zero)
      p0a == mm_add_epi8(p0, mm_and_si128(PNG_SSE_PAETH(k.pz, u0, k.uz), mask))
      uzB == mm_shuffle_epi32(u0, MM_SHUFFLE(1, 0, 3, 2))
      p0b == mm_add_epi8(p0a, mm_slli_si128(PNG_SSE_PAETH(p0a, uzB, u0), 8))
      pzB == mm_srli_si128(p0b, 8)
      p1a == mm_add_epi8(p1, mm_and_si128(PNG_SSE_PAETH(pzB, u1, uzB), mask))
      uzD == mm_shuffle_epi32(u1, MM_SHUFFLE(1, 0, 3, 2))
      p1b == mm_add_epi8(p1a, mm_slli_si128(PNG_SSE_PAETH(p1a, uzD, u1), 8))
      k1 == mm_store_si128(k0, k.p + 4, mm_packus_epi16(p0b, p1b))
  IN  [k1 EXCEPT !.pz = mm_srli_si128(p1b, 8), !.uz = uzD,
                 !.p = @ + 16, !.u = @ + 16, !.i = @ - 16]

\* One iteration of while (i >= 16) of Paeth, <6>.
SSE2Paeth16_6(k) ==
  LET zero == mm_setzero_si128
      k0 == Access(Access(k, k.p + 6, 16, 16), k.u + 6, 16, 1)
      L == mm_load_si128(k, k.p + 6)
      U == mm_loadu_si128(k, k.u + 6)
      p0 == mm_unpacklo_epi8(L, zero)
      u0 == mm_unpacklo_epi8(U, zero)
      p0a == mm_add_epi8(p0, PNG_SSE_PAETH(k.pz, u0, k.uz))
      p1 == mm_unpacklo_epi8(mm_srli_si128(L, 6), zero)
      u1 == mm_unpacklo_epi8(mm_srli_si128(U, 6), zero)
      p1a == mm_add_epi8(p1, PNG_SSE_PAETH(p0a, u1, u0))
      p2 == mm_unpacklo_epi8(mm_srli_si128(mm_srli_si128(L, 6), 6), zero)
      u2 == mm_unpacklo_epi8(mm_srli_si128(mm_srli_si128(U, 6), 6), zero)
      p2a == mm_add_epi8(p2, PNG_SSE_PAETH(p1a, u2, u1))
      q0 == mm_srli_si128(
              mm_slli_si128(mm_packus_epi16(mm_slli_si128(p0a, 4), p1a), 2), 4)
      p2s == mm_shuffle_epi32(p2a, MM_SHUFFLE(1, 0, 1, 0))
      u2s == mm_shuffle_epi32(u2, MM_SHUFFLE(1, 0, 1, 0))
      out == mm_or_si128(q0, mm_slli_si128(mm_packus_epi16(p2s, p2s), 12))
      k1 == mm_store_si128(k0, k.p + 6, out)
  IN  [k1 EXCEPT
         !.pz = mm_shuffle_epi32(mm_unpackhi_epi32(p1a, p2s), MM_SHUFFLE(3, 3, 1, 0)),
         !.uz = mm_shuffle_epi32(mm_unpackhi_epi32(u1, u2s), MM_SHUFFLE(3, 3, 1, 0)),
         !.p = @ + 16, !.u = @ + 16, !.i = @ - 16]

\* One iteration of while (i >= 16) of Paeth, <8>.
SSE2Paeth16_8(k) ==
  LET zero == mm_setzero_si128
      k0 == Access(Access(k, k.p + 8, 16, 16), k.u + 8, 16, 1)
      L == mm_load_si128(k, k.p + 8)
      U == mm_loadu_si128(k, k.u + 8)
      p1 == mm_unpackhi_epi8(L, zero)
      p0 == mm_unpacklo_epi8(L, zero)
      u1 == mm_unpackhi_epi8(U, zero)
      u0 == mm_unpacklo_epi8(U, zero)
      p0a == mm_add_epi8(p0, PNG_SSE_PAETH(k.pz, u0, k.uz))
      pzB == mm_add_epi8(PNG_SSE_PAETH(p0a, u1, u0), p1)
      k1 == mm_store_si128(k0, k.p + 8, mm_packus_epi16(p0a, pzB))
  IN  [k1 EXCEPT !.pz = pzB, !.uz = u1, !.p = @ + 16, !.u = @ + 16, !.i = @ - 16]

---------------------------------------------------------------------------
(* The images the kernels are run on.                                      *)

\* The widths tried for the bpp of index bi: one and two pixels (no vector
\* block), a medium row and a wide row.
Widths(bi) ==
  {1, 2, MidRowBytes \div OptDePngBppData[bi], MaxRowBytes \div OptDePngBppData[bi]}

Image(bppA, w, hh, img) == [bpp |-> bppA, bpl |-> w * bppA + 1, h |-> hh, raw |-> img]

\* Images generated as OptDePngCheck generates them, first row None and the
\* other rows of one filter (or, for kPngFilterCount, of the filters in turn).
HarnessImages ==
  UNION { { Image(OptDePngBppData[bi], w, MaxH,
                  OptDePngRandomImage(w, MaxH, OptDePngBppData[bi], filter,
                                      CheckSeed(filter, MaxH, w, bi)))
            : w \in Widths(bi), filter \in 0..kPngFilterCount }
          : bi \in 1..Len(OptDePngBppData) }

\* Images whose first row is filtered like the others, as a decoder meets
\* them in a PNG file: the generated image with the filter byte of row 0 set.
FirstRowImages ==
  { Image(OptDePngBppData[bi], FirstRowMaxW, MaxH,
          [OptDePngRandomImage(FirstRowMaxW, MaxH, OptDePngBppData[bi], filter,
                               CheckSeed(filter, MaxH, FirstRowMaxW, bi))
             EXCEPT ![1] = filter])
    : bi \in 1..Len(OptDePngBppData), filter \in kPngFilterSub..kPngFilterPaeth }

\* The generated image of medium width for the bpp of index bi, its second
\* row given filter f1 and its third row filter f2.
MixedImage(bi, f1, f2) ==
  LET bppA == OptDePngBppData[bi]
      w == MidRowBytes \div bppA
      bplA == w * bppA + 1
      img == OptDePngRandomImage(w, MaxH, bppA, kPngFilterNone,
                                 CheckSeed(kPngFilterNone, MaxH, w, bi))
  IN  Image(bppA, w, MaxH, [img EXCEPT ![bplA + 1] = f1, ![2 * bplA + 1] = f2])

\* Images whose rows below the first carry any two filters.
MixedImages ==
  { MixedImage(bi, f1, f2) : bi \in 1..Len(OptDePngBppData),
                             f1 \in kPngFilterNone..kPngFilterPaeth,
                             f2 \in kPngFilterNone..kPngFilterPaeth }

\* The four small images worked by hand: Sub, Up, Avg and Paeth.
ScenarioImages ==
  { Image(1, 4, 1, <<1, 10, 20, 30, 40>>),
    Image(2, 3, 2, <<0, 1, 2, 3, 4, 5, 6,  2, 10, 20, 30, 40, 50, 60>>),
    Image(1, 4, 2, <<0, 10, 20, 30, 40,  3, 2, 4, 6, 8>>),
    Image(3, 2, 2, <<0, 10, 20, 30, 40, 50, 60,  4, 1, 1, 1, 1, 1, 1>>) }

Images == HarnessImages \cup FirstRowImages \cup MixedImages \cup ScenarioImages

---------------------------------------------------------------------------
(* The calls.                                                              *)

\* A kernel that has not been called: its copy of the image at address base.
Idle(img, base) ==
  [pc |-> "idle", buf |-> img, base |-> base, p |-> base, u |-> NULL,
   y |-> 0, bpl |-> 0, bad |-> FALSE, g |-> 0,
   wr |-> [j \in 1..Len(img) |-> 0], frd |-> <<>>, rows |-> <<>>, fresh |-> TRUE,
   inrow |-> TRUE, aligned |-> TRUE]

\* The same for the SSE2 kernel, with its locals.
IdleSSE2(img, base) ==
  [pc |-> "idle", buf |-> img, base |-> base, p |-> base, u |-> NULL,
   y |-> 0, bpl |-> 0, bad |-> FALSE, g |-> 0,
   wr |-> [j \in 1..Len(img) |-> 0], frd |-> <<>>, rows |-> <<>>, fresh |-> TRUE,
   inrow |-> TRUE, aligned |-> TRUE,
   avg |-> [lo |-> mm_setzero_si128, loM |-> mm_setzero_si128,
            hi |-> mm_setzero_si128, hiM |-> mm_setzero_si128],
   filter |-> 0, i |-> 0,
   p0 |-> mm_setzero_si128, t0 |-> 0, t1 |-> mm_setzero_si128,
   pz |-> mm_setzero_si128, uz |-> mm_setzero_si128]

\* The row loop that goes round once more after the last row.
RowDoneLate(k) == [k EXCEPT !.pc = IF k.y = 0 - 1 THEN "ret" ELSE "row"]

\* After a row: --y != 0 goes round the loop, else the call returns.
RowDone(k) == [k EXCEPT !.pc = IF k.y = 0 THEN "ret" ELSE "row"]

\* An access outside the buffer faulted.
Fault(k) == [k EXCEPT !.pc = "fault", !.bad = TRUE]

\* What the step F makes of k.  A step that stays inside the buffer has one
\* outcome.  A step that reads or writes outside it is undefined behaviour:
\* it faults, or it goes on with some byte g for what it read there; bad
\* stays set from then on.
Outcomes(k, F(_)) ==
  LET r == F([k EXCEPT !.bad = FALSE])
  IN  IF ~r.bad THEN {[r EXCEPT !.bad = k.bad]}
      ELSE {Fault(k)} \cup {F([k EXCEPT !.g = g, !.bad = TRUE]) : g \in GarbageBytes}

\* The end of a row that leaves u where the row left it.
SSE2RowEndKeepU(k) ==
  RowDone([k EXCEPT !.y = @ - 1, !.filter = 0, !.i = 0,
                    !.p0 = mm_setzero_si128, !.t0 = 0, !.t1 = mm_setzero_si128,
                    !.pz = mm_setzero_si128, !.uz = mm_setzero_si128])

\* u = p - bpl; } while (--y != 0); the locals of the row are dead.
SSE2RowEnd(k) ==
  RowDone([k EXCEPT !.u = k.p - k.bpl, !.y = @ - 1, !.filter = 0, !.i = 0,
                    !.p0 = mm_setzero_si128, !.t0 = 0, !.t1 = mm_setzero_si128,
                    !.pz = mm_setzero_si128, !.uz = mm_setzero_si128])

\* From uint32_t filter = *p++ to the test of i against the threshold of
\* the vector path; None, Paeth <1> and a filter byte of no case finish the
\* row here.
SSE2Filter(k, bppA) ==
  LET filter == Ld(k, k.p)
      k0 == [FilterRead(k) EXCEPT !.p = @ + 1, !.filter = filter]
      Branch(k1, i, least) ==
        [k1 EXCEPT !.i = i, !.pc = IF i >= least THEN "head" ELSE "tail"]
  IN  CASE filter = kPngFilterNone -> SSE2RowEnd([k0 EXCEPT !.p = @ + k.bpl])
        [] filter = kPngFilterSub -> Branch(k0, k.bpl - bppA, 32)
        [] filter = kPngFilterUp -> Branch(k0, k.bpl, 24)
        [] filter = kPngFilterAvg ->
             Branch([SSE2AvgHead(k0, 0, bppA) EXCEPT !.u = @ + bppA], k.bpl - bppA, 32)
        [] filter = kPngFilterPaeth ->
             (IF bppA = 1 THEN SSE2RowEnd(SSE2Paeth1(k0))
              ELSE Branch(SSE2PaethHead(k0, 0, bppA), k.bpl - bppA, 32))
        [] OTHER -> SSE2RowEnd(k0)

\* Align to 16-BYTE boundary: the scalar loop of j passes, then the values
\* the vector loop starts from.
SSE2Align(k, bppA) ==
  LET j == OptAlignDiff(IF k.filter = kPngFilterUp THEN k.p ELSE k.p + bppA, 16)
      k0 == [k EXCEPT !.i = @ - j]
      k1 == CASE k.filter = kPngFilterSub -> SSE2SubCarry(SSE2SubScalar(k0, j, bppA), bppA)
              [] k.filter = kPngFilterUp -> SSE2UpScalar(k0, j)
              [] k.filter = kPngFilterAvg -> SSE2AvgCarry(SSE2AvgScalar(k0, j, bppA), bppA)
              [] k.filter = kPngFilterPaeth ->
                   SSE2PaethCarry(SSE2PaethScalar(k0, j, bppA), bppA)
  IN  [k1 EXCEPT !.pc = "body"]

\* The bytes of one pass of the second vector loop of the row's filter
\* for <bpp>, 0 where there is none.
BlockBytes(k, bppA) ==
  CASE k.filter = kPngFilterSub -> 16
    [] k.filter = kPngFilterUp -> 8
    [] k.filter = kPngFilterAvg ->
         (IF bppA = 1 THEN 8 ELSE IF bppA \in {4, 6, 8} THEN 16 ELSE 0)
    [] k.filter = kPngFilterPaeth ->
         (IF bppA = 3 THEN 8 ELSE IF bppA \in {4, 6, 8} THEN 16 ELSE 0)
    [] OTHER -> 0

\* while (i >= 64) is entered.
In64(k) == k.filter \in {kPngFilterSub, kPngFilterUp} /\ k.i >= 64

\* The second vector loop entered as long as a byte remains.
In16Any(k, bppA) == ~In64(k) /\ BlockBytes(k, bppA) > 0 /\ k.i >= 1

\* while (i >= 16) or while (i >= 8) is entered.
In16(k, bppA) == ~In64(k) /\ BlockBytes(k, bppA) > 0 /\ k.i >= BlockBytes(k, bppA)

SSE2Loop64(k, bppA) ==
  IF k.filter = kPngFilterSub THEN SSE2Sub64(k, bppA) ELSE SSE2Up64(k)

SSE2Loop16(k, bppA) ==
  CASE k.filter = kPngFilterSub -> SSE2Sub16(k, bppA)
    [] k.filter = kPngFilterUp -> SSE2Up8(k)
    [] k.filter = kPngFilterAvg ->
         (CASE bppA = 1 -> SSE2Avg8_1(k)
            [] bppA = 4 -> SSE2Avg16_4(k)
            [] bppA = 6 -> SSE2Avg16_6(k)
            [] bppA = 8 -> SSE2Avg16_8(k))
    [] k.filter = kPngFilterPaeth ->
         (CASE bppA = 3 -> SSE2Paeth8_3(k)
            [] bppA = 4 -> SSE2Paeth16_4(k)
            [] bppA = 6 -> SSE2Paeth16_6(k)
            [] bppA = 8 -> SSE2Paeth16_8(k))

\* for (; i != 0; i--, ...) and the end of the row.
SSE2Rest(k, bppA) ==
  LET k0 == [k EXCEPT !.i = 0]
  IN  SSE2RowEnd(
        CASE k.filter = kPngFilterSub -> [SSE2SubScalar(k0, k.i, bppA) EXCEPT !.p = @ + bppA]
          [] k.filter = kPngFilterUp -> SSE2UpScalar(k0, k.i)
          [] k.filter = kPngFilterAvg -> [SSE2AvgScalar(k0, k.i, bppA) EXCEPT !.p = @ + bppA]
          [] k.filter = kPngFilterPaeth ->
               [SSE2PaethScalar(k0, k.i, bppA) EXCEPT !.p = @ + bppA])

\* The state of OptDePngFilterSSE2_T<bpp>(p, h, bpl) at its do.
OptDePngFilterSSE2_T(k, p, hh, bplA) ==
  [k EXCEPT !.pc = "row", !.base = p, !.p = p, !.y = hh, !.u = NULL, !.bpl = bplA - 1,
            !.frd = [y \in 1..hh |-> 0]]

\* switch (bpp): a bpp of no case returns at once.
OptDePngFilterSSE2(k, p, hh, bppA, bplA) ==
  IF bppA \in {1, 2, 3, 4, 6, 8} THEN OptDePngFilterSSE2_T(k, p, hh, bplA)
  ELSE [k EXCEPT !.pc = "ret"]

\* A part of the program that the specification at hand leaves out.
FnOff == [pc |-> "off"]

\* The addresses modulo 16 the image may start at.
Alignments == 0..15

Init ==
  /\ \E im \in Images :
       /\ bpp = im.bpp /\ bpl = im.bpl /\ h = im.h /\ raw = im.raw
       /\ ref = Idle(im.raw, HeapBase)
       /\ opt = Idle(im.raw, HeapBase)
       /\ sse = IdleSSE2(im.raw, HeapBase)
  /\ fn = FnOff /\ gen = FnOff /\ cmp = FnOff /\ main = FnOff

RefCall ==
  /\ ref.pc = "idle"
  /\ ref' = OptDePngFilterRef(ref, ref.base, h, bpp, bpl)
  /\ UNCHANGED <<bpp, bpl, h, raw, opt, sse, fn, gen, cmp, main>>

RefStep ==
  /\ ref.pc = "row"
  /\ ref' \in Outcomes(ref, LAMBDA k : RowDone(RefRow(k, bpp)))
  /\ UNCHANGED <<bpp, bpl, h, raw, opt, sse, fn, gen, cmp, main>>

OptCall ==
  /\ ref.pc = "ret" /\ opt.pc = "idle"
  /\ opt' = OptDePngFilterOpt(opt, opt.base, h, bpp, bpl)
  /\ UNCHANGED <<bpp, bpl, h, raw, ref, sse, fn, gen, cmp, main>>

OptStep ==
  /\ opt.pc = "row"
  /\ opt' \in Outcomes(opt, LAMBDA k : RowDone(OptRow(k, bpp)))
  /\ UNCHANGED <<bpp, bpl, h, raw, ref, sse, fn, gen, cmp, main>>

\* The image is placed at one of the 16 alignments and the kernel is called.
SSE2Call ==
  /\ opt.pc = "ret" /\ sse.pc = "idle"
  /\ \E al \in Alignments :
       sse' = OptDePngFilterSSE2(sse, HeapBase + al, h, bpp, bpl)
  /\ UNCHANGED <<bpp, bpl, h, raw, ref, opt, fn, gen, cmp, main>>

SSE2FilterStep ==
  /\ sse.pc = "row"
  /\ sse' \in Outcomes(sse, LAMBDA k : SSE2Filter(k, bpp))
  /\ UNCHANGED <<bpp, bpl, h, raw, ref, opt, fn, gen, cmp, main>>

SSE2AlignStep ==
  /\ sse.pc = "head"
  /\ sse' \in Outcomes(sse, LAMBDA k : SSE2Align(k, bpp))
  /\ UNCHANGED <<bpp, bpl, h, raw, ref, opt, fn, gen, cmp, main>>

SSE2Step64 ==
  /\ sse.pc = "body" /\ In64(sse)
  /\ sse' \in Outcomes(sse, LAMBDA k : SSE2Loop64(k, bpp))
  /\ UNCHANGED <<bpp, bpl, h, raw, ref, opt, fn, gen, cmp, main>>

SSE2Step16 ==
  /\ sse.pc = "body" /\ In16(sse, bpp)
  /\ sse' \in Outcomes(sse, LAMBDA k : SSE2Loop16(k, bpp))
  /\ UNCHANGED <<bpp, bpl, h, raw, ref, opt, fn, gen, cmp, main>>

SSE2RestStep ==
  /\ \/ sse.pc = "tail"
     \/ sse.pc = "body" /\ ~In64(sse) /\ ~In16(sse, bpp)
  /\ sse' \in Outcomes(sse, LAMBDA k : SSE2Rest(k, bpp))
  /\ UNCHANGED <<bpp, bpl, h, raw, ref, opt, fn, gen, cmp, main>>

Next ==
  \/ RefCall
  \/ RefStep
  \/ OptCall
  \/ OptStep
  \/ SSE2Call
  \/ SSE2FilterStep
  \/ SSE2AlignStep
  \/ SSE2Step64
  \/ SSE2Step16
  \/ SSE2RestStep

Spec == Init /\ [][Next]_vars

---------------------------------------------------------------------------
(* The scalar helpers on their own: SpecFn applies them to arguments drawn *)
(* from the bytes.                                                         *)

\* The second arguments tried: every PaethStep-th byte and the largest.
SampleB == {x \in Byte : x % PaethStep = 0} \cup {255}

InitFn ==
  /\ bpp = 1 /\ bpl = 2 /\ h = 1 /\ raw = <<0, 0>>
  /\ ref = Idle(raw, HeapBase) /\ opt = Idle(raw, HeapBase)
  /\ sse = IdleSSE2(raw, HeapBase)
  /\ \E a \in Byte, b \in SampleB : fn = [pc |-> "args", a |-> a, b |-> b]
  /\ gen = FnOff /\ cmp = FnOff /\ main = FnOff

\* The helpers are applied: UDiv3 to a, the Paeth predictors to (a, b, c)
\* for every byte c.
FnEval ==
  /\ fn.pc = "args"
  /\ fn' = [pc |-> "done", a |-> fn.a, b |-> fn.b,
            udiv3 |-> UDiv3(fn.a),
            paethOpt |-> [c \in Byte |-> PaethOpt(fn.a, fn.b, c)],
            paethRefBA |-> [c \in Byte |-> PaethRef(fn.b, fn.a, c)],
            paethRefAB |-> [c \in Byte |-> PaethRef(fn.a, fn.b, c)],
            parts |-> [c \in Byte |-> PaethOptParts(fn.a, fn.b, c)],
            divAB16 |-> DivAB16(fn.a)]
  /\ UNCHANGED <<bpp, bpl, h, raw, ref, opt, sse, gen, cmp, main>>

NextFn == FnEval

SpecFn == InitFn /\ [][NextFn]_vars

---------------------------------------------------------------------------
(* One pass of while (i >= 16) of Sub on its own: a row that holds the     *)
(* filter byte, one pixel already reconstructed and a 16-byte window, the  *)
(* kernel standing at the top of the loop.                                 *)

\* The first bytes of the windows tried are OptDePngRandomData[0..WinMaxOff].
WinMaxOff == 60

\* The places of OptDePngRandomData the reconstructed pixel is taken from.
WinCarryOffs == {0, 121, 135}

\* The row: Sub, bpp bytes from offset c of the table, 16 from offset o.
WindowRow(bppA, o, c) ==
  <<kPngFilterSub>> \o [j \in 1..bppA |-> OptDePngRandomData[c + j]]
                    \o [j \in 1..16 |-> OptDePngRandomData[o + j]]

\* The SSE2 kernel after the head of that row, placed so that p + bpp is a
\* multiple of 16, with 16 bytes to go.
WindowEntry(bppA, row) ==
  LET base == HeapBase + 15 - bppA
  IN  [IdleSSE2(row, base) EXCEPT
         !.pc = "body", !.p = base + 1, !.y = 1, !.bpl = bppA + 16,
         !.frd = <<1>>, !.rows = <<0>>, !.filter = kPngFilterSub, !.i = 16]

InitWindow ==
  /\ bpp = 1 /\ bpl = 2 /\ h = 1 /\ raw = <<0, 0>>
  /\ ref = Idle(raw, HeapBase) /\ opt = Idle(raw, HeapBase)
  /\ sse = IdleSSE2(raw, HeapBase)
  /\ \E x \in 1..Len(OptDePngBppData), o \in 0..WinMaxOff, c \in WinCarryOffs :
       fn = [pc |-> "window", bpp |-> OptDePngBppData[x],
             row |-> WindowRow(OptDePngBppData[x], o, c)]
  /\ gen = FnOff /\ cmp = FnOff /\ main = FnOff

\* p0 is loaded with the pixel at p and the loop body runs once.
WindowPass ==
  /\ fn.pc = "window"
  /\ fn' = [pc |-> "passed", bpp |-> fn.bpp, row |-> fn.row,
            k |-> SSE2Sub16(SSE2SubCarry(WindowEntry(fn.bpp, fn.row), fn.bpp), fn.bpp)]
  /\ UNCHANGED <<bpp, bpl, h, raw, ref, opt, sse, gen, cmp, main>>

NextWindow == WindowPass

SpecWindow == InitWindow /\ [][NextWindow]_vars

---------------------------------------------------------------------------
(* The kernels on input outside their precondition: a filter byte that is  *)
(* no filter, or a bpp that is no case of the dispatch.                    *)

\* The filter byte put in place of a row's own, and the byte put behind it
\* as the row's first pixel byte.
BadFilterPairs == { <<5, 1>>, <<5, 2>>, <<255, 3>>, <<255, 4>>, <<6, 0>>, <<5, 5>> }

\* The rows that get the bad filter byte in an image of width w: row 0
\* only in the narrow images.
BadRows(w) == IF w <= FirstRowMaxW THEN 0..(MaxH - 1) ELSE 1..(MaxH - 1)

\* The generated image img with the filter byte of row y replaced by v[1]
\* and the pixel byte behind it by v[2].
BadFilterImage(bppA, w, img, y, v) ==
  Image(bppA, w, MaxH, [img EXCEPT ![y * (w * bppA + 1) + 1] = v[1],
                                   ![y * (w * bppA + 1) + 2] = v[2]])

\* The images made of the generated image of width w for the bpp of index
\* bi (row 0 None, the other rows of the filters in turn).
BadFilterImagesOf(bi, w) ==
  LET bppA == OptDePngBppData[bi]
      img == OptDePngRandomImage(w, MaxH, bppA, kPngFilterCount,
                                 CheckSeed(kPngFilterCount, MaxH, w, bi))
  IN  { BadFilterImage(bppA, w, img, y, v) : y \in BadRows(w), v \in BadFilterPairs }

BadFilterImages ==
  UNION { UNION { BadFilterImagesOf(bi, w) : w \in Widths(bi) }
          : bi \in 1..Len(OptDePngBppData) }

\* Values of bpp that are no case label of the two dispatching entry points.
OtherBpp == {5, 7}

\* Generated images of such a bpp, every row below the first of one filter.
OtherBppImages ==
  UNION { { Image(bppA, w, MaxH, OptDePngRandomImage(w, MaxH, bppA, filter, w + filter))
            : w \in {1, 2, MidRowBytes \div bppA},
              filter \in kPngFilterNone..kPngFilterPaeth }
          : bppA \in OtherBpp }

InitMalformed ==
  /\ \E im \in BadFilterImages \cup OtherBppImages :
       /\ bpp = im.bpp /\ bpl = im.bpl /\ h = im.h /\ raw = im.raw
       /\ ref = Idle(im.raw, HeapBase)
       /\ opt = Idle(im.raw, HeapBase)
       /\ sse = IdleSSE2(im.raw, HeapBase)
  /\ fn = FnOff /\ gen = FnOff /\ cmp = FnOff /\ main = FnOff

SpecMalformed == InitMalformed /\ [][Next]_vars

---------------------------------------------------------------------------
(* A kernel call from entry to return, as the harness makes it.            *)

\* The reference kernel from its do to its return.
RECURSIVE RefRun(_, _)
RefRun(k, bppA) ==
  IF k.pc # "row" THEN k ELSE RefRun(RowDone(RefRow(k, bppA)), bppA)

RECURSIVE OptRun(_, _)
OptRun(k, bppA) ==
  IF k.pc # "row" THEN k ELSE OptRun(RowDone(OptRow(k, bppA)), bppA)

\* The step of the SSE2 kernel that its position calls for.
SSE2Advance(k, bppA) ==
  CASE k.pc = "row" -> SSE2Filter(k, bppA)
    [] k.pc = "head" -> SSE2Align(k, bppA)
    [] k.pc = "body" /\ In64(k) -> SSE2Loop64(k, bppA)
    [] k.pc = "body" /\ In16(k, bppA) -> SSE2Loop16(k, bppA)
    [] OTHER -> SSE2Rest(k, bppA)

RECURSIVE SSE2Run(_, _)
SSE2Run(k, bppA) ==
  IF k.pc \in {"ret", "fault", "idle"} THEN k ELSE SSE2Run(SSE2Advance(k, bppA), bppA)

\* OptDePngFilterRef(p, h, bpp, bpl) on the buffer img that malloc placed
\* at HeapBase: the kernel's state at its return.
RefCallOn(img, hh, bppA, bplA) ==
  RefRun(OptDePngFilterRef(Idle(img, HeapBase), HeapBase, hh, bppA, bplA), bppA)

\* The same for the kernel main checks under the given name.
OptCallOn(name, img, hh, bppA, bplA) ==
  IF name = "Opt"
    THEN OptRun(OptDePngFilterOpt(Idle(img, HeapBase), HeapBase, hh, bppA, bplA), bppA)
    ELSE SSE2Run(OptDePngFilterSSE2(IdleSSE2(img, HeapBase), HeapBase, hh, bppA, bplA),
                 bppA)

---------------------------------------------------------------------------
(* OptDePngRandomImage on its own: SpecGen calls it twice with the same    *)
(* arguments, with or without another call in between, in blocks of        *)
(* whatever contents malloc hands out.                                     *)

\* Largest width and height of SpecGen.
GenMaxW == 2
GenMaxH == 7

\* Seeds: the first, two around the length of the table, and the last seed
\* OptDePngCheck reaches.
GenSeeds == {0, 149, 298, CheckSeed(kPngFilterCount, 19, 99, 6)}

\* The contents malloc(n) may return: all zeros, all ones, or what the
\* block freed last held (0xAA past its end).
Malloc(n, freed) ==
  {Block(n, 0), Block(n, 255),
   [j \in 1..n |-> IF j <= Len(freed) THEN freed[j] ELSE 170]}

InitGen ==
  /\ bpp = 1 /\ bpl = 2 /\ h = 1 /\ raw = <<0, 0>>
  /\ ref = Idle(raw, HeapBase) /\ opt = Idle(raw, HeapBase)
  /\ sse = IdleSSE2(raw, HeapBase)
  /\ fn = FnOff /\ cmp = FnOff /\ main = FnOff
  /\ \E w \in 1..GenMaxW, hh \in 1..GenMaxH, bi \in 1..Len(OptDePngBppData),
        filter \in 0..kPngFilterCount, seed \in GenSeeds :
       gen = [pc |-> "first", w |-> w, h |-> hh, bpp |-> OptDePngBppData[bi],
              filter |-> filter, seed |-> seed,
              first |-> <<>>, second |-> <<>>, freed |-> <<>>]

\* The first call returns its image.
GenFirst ==
  /\ gen.pc = "first"
  /\ \E mem \in Malloc(RandomSize(gen.w, gen.h, gen.bpp), gen.freed) :
       gen' = [gen EXCEPT !.pc = "other",
                 !.first = RandomFill(mem, gen.w, gen.h, gen.bpp, gen.filter, gen.seed)]
  /\ UNCHANGED <<bpp, bpl, h, raw, ref, opt, sse, fn, cmp, main>>

\* A call with other arguments, whose image is freed at once.
GenOther ==
  /\ gen.pc = "other"
  /\ LET f2 == (gen.filter + 1) % (kPngFilterCount + 1)
     IN  \E mem \in Malloc(RandomSize(gen.w + 1, gen.h, gen.bpp), gen.freed) :
           gen' = [gen EXCEPT !.pc = "second",
                     !.freed = RandomFill(mem, gen.w + 1, gen.h, gen.bpp, f2, gen.seed + 1)]
  /\ UNCHANGED <<bpp, bpl, h, raw, ref, opt, sse, fn, cmp, main>>

\* The second call with the arguments of the first.
GenSecond ==
  /\ gen.pc \in {"other", "second"}
  /\ \E mem \in Malloc(RandomSize(gen.w, gen.h, gen.bpp), gen.freed) :
       gen' = [gen EXCEPT !.pc = "done",
                 !.second = RandomFill(mem, gen.w, gen.h, gen.bpp, gen.filter, gen.seed)]
  /\ UNCHANGED <<bpp, bpl, h, raw, ref, opt, sse, fn, cmp, main>>

\* malloc returns NULL and so does the call.
GenNull ==
  /\ gen.pc \in {"first", "other", "second"}
  /\ gen' = [gen EXCEPT !.pc = "null"]
  /\ UNCHANGED <<bpp, bpl, h, raw, ref, opt, sse, fn, cmp, main>>

NextGen ==
  \/ GenFirst
  \/ GenOther
  \/ GenSecond
  \/ GenNull

SpecGen == InitGen /\ [][NextGen]_vars

---------------------------------------------------------------------------
(* OptDePngCompare.  Its result is a record: ok is what the function       *)
(* returns, err the message it printed ("" when it printed none), y and at *)
(* the row and the pixel byte of the row it stopped at.                    *)

CompareOk == [ok |-> TRUE, err |-> "", y |-> 0, at |-> 0]

CompareFail(err, y, at) == [ok |-> FALSE, err |-> err, y |-> y, at |-> at]

\* The comparison that lets any filter byte pass.
CompareRowAnyFilter(pA, pB, o, y, n) ==
  LET aFilter == pA[o + 1]
      bFilter == pB[o + 1]
      diff == {j \in 1..n : pA[o + 1 + j] # pB[o + 1 + j]}
  IN  IF aFilter # bFilter THEN CompareFail("Filter !=", y, 0)
      ELSE IF diff # {}
        THEN CompareFail("Pixel !=", y, CHOOSE j \in diff : \A j2 \in diff : j <= j2)
      ELSE CompareOk

\* One pass of for (y ...): the row starts at offset o of both buffers and
\* has n = w * bpp pixel bytes, looked at in the order of memory.
CompareRow(pA, pB, o, y, n) ==
  LET aFilter == pA[o + 1]
      bFilter == pB[o + 1]
      diff == {j \in 1..n : pA[o + 1 + j] # pB[o + 1 + j]}
  IN  IF aFilter # bFilter THEN CompareFail("Filter !=", y, 0)
      ELSE IF aFilter >= kPngFilterCount THEN CompareFail("Filter", y, 0)
      ELSE IF diff # {}
        THEN CompareFail("Pixel !=", y, CHOOSE j \in diff : \A j2 \in diff : j <= j2)
      ELSE CompareOk

\* for (y = 0; y < h; y++) from row y on: the first row that fails ends it.
RECURSIVE CompareRows(_, _, _, _, _)
CompareRows(pA, pB, y, hh, n) ==
  IF ~(y < hh) THEN CompareOk
  ELSE LET r == CompareRow(pA, pB, y * (n + 1), y, n)
       IN  IF ~r.ok THEN r ELSE CompareRows(pA, pB, y + 1, hh, n)

OptDePngCompare(pA, pB, w, hh, bppA, bplA) ==
  IF bplA # w * bppA + 1 THEN CompareFail("Invalid BPL", 0, 0)
  ELSE CompareRows(pA, pB, 0, hh, w * bppA)

\* SpecCompare hands OptDePngCompare pairs of buffers of a generated image:
\* the image itself, and copies with one byte replaced.

\* Largest width and height of SpecCompare.
CmpMaxW == 2
CmpMaxH == 2

\* The bytes put in place of a byte of the image: the filters, the first
\* values that are no filter, and the largest byte.
CmpBytes == {0, 1, 4, 5, 6, 255}

\* The buffers made from img: img, and img with the byte at j set to v.
Variants(img) ==
  {img} \cup {[img EXCEPT ![j] = v] : j \in 1..Len(img), v \in CmpBytes}

InitCompare ==
  /\ bpp = 1 /\ bpl = 2 /\ h = 1 /\ raw = <<0, 0>>
  /\ ref = Idle(raw, HeapBase) /\ opt = Idle(raw, HeapBase)
  /\ sse = IdleSSE2(raw, HeapBase)
  /\ fn = FnOff /\ gen = FnOff /\ main = FnOff
  /\ \E w \in 1..CmpMaxW, hh \in 1..CmpMaxH, bppA \in {1, 2}, slack \in {0, 1} :
       LET img == OptDePngRandomImage(w, hh, bppA, kPngFilterCount, w + hh)
       IN  \E pA \in Variants(img), pB \in Variants(img) :
             cmp = [pc |-> "args", pA |-> pA, pB |-> pB, w |-> w, h |-> hh,
                    bpp |-> bppA, bpl |-> w * bppA + 1 + slack,
                    result |-> CompareFail("not called", 0, 0)]

CompareCall ==
  /\ cmp.pc = "args"
  /\ cmp' = [cmp EXCEPT !.pc = "done",
               !.result = OptDePngCompare(cmp.pA, cmp.pB, cmp.w, cmp.h, cmp.bpp, cmp.bpl)]
  /\ UNCHANGED <<bpp, bpl, h, raw, ref, opt, sse, fn, gen, main>>

NextCompare == CompareCall

SpecCompare == InitCompare /\ [][NextCompare]_vars

---------------------------------------------------------------------------
(* main and OptDePngCheck.  OptDePngCheck takes the two kernels as         *)
(* function pointers.  main hands it the kernels of the repository; to     *)
(* reach the paths on which a check fails, SpecMain also links kernels     *)
(* with a flaw, as the harness is there to catch: a flawed kernel is the   *)
(* repository's kernel that, called with the bpp of the flaw, spoils one   *)
(* byte of every row below the first whose filter byte is the flaw's.      *)

\* Largest height and width of the loops of OptDePngCheck in SpecMain (the
\* code runs them to 19 and 99).
CheckMaxH == 2
CheckMaxW == 2

NoFlaw == [bpp |-> 0, filter |-> 0, byte |-> "none"]

Flaws ==
  {NoFlaw,
   [bpp |-> 3, filter |-> kPngFilterAvg, byte |-> "pixel"],
   [bpp |-> 1, filter |-> kPngFilterSub, byte |-> "filter"],
   [bpp |-> 8, filter |-> kPngFilterNone, byte |-> "pixel"]}

\* The kernels linked as OptDePngFilterOpt and OptDePngFilterSSE2.
Builds ==
  {[Opt |-> NoFlaw, SSE2 |-> NoFlaw]}
    \cup {[Opt |-> f, SSE2 |-> NoFlaw] : f \in Flaws}
    \cup {[Opt |-> NoFlaw, SSE2 |-> f] : f \in Flaws}

\* What the flaw makes of the buffer buf the kernel returned: in the rows
\* y >= 1 of the flaw's filter, the last pixel byte is one too high, or the
\* filter byte is overwritten.
Spoil(buf, flaw, hh, bppA, bplA) ==
  IF flaw.byte = "none" \/ flaw.bpp # bppA THEN buf
  ELSE [j \in 1..Len(buf) |->
          LET y == (j - 1) \div bplA
              x == (j - 1) % bplA
              hit == y >= 1 /\ y < hh /\ buf[y * bplA + 1] = flaw.filter
          IN  IF hit /\ flaw.byte = "pixel" /\ x = bplA - 1 THEN (buf[j] + 1) % 256
              ELSE IF hit /\ flaw.byte = "filter" /\ x = 0 THEN 7
              ELSE buf[j]]

\* The buffer a linked kernel leaves, k being the state of the
\* repository's kernel at its return; <<>> stands for a call that left the
\* buffer or faulted.
Linked(k, flaw, hh, bppA, bplA) ==
  IF k.bad \/ k.pc # "ret" THEN <<>> ELSE Spoil(k.buf, flaw, hh, bppA, bplA)

\* OptDePngCheck(name, OptDePngFilterRef, kernel of that name) at its entry.
CheckEntry(m, name) ==
  [m EXCEPT !.pc = "gen", !.name = name, !.filter = 0, !.h = 1, !.w = 1,
            !.bppIndex = 0, !.seed = 0, !.pRef = <<>>, !.pOpt = <<>>]

\* seed++ and the four for headers: bppIndex runs fastest, then w, h and
\* filter; past the last filter the check returns true and main goes on,
\* to the check of SSE2 or to the benchmarks.
CheckAdvance(m) ==
  LET m1 == [m EXCEPT !.seed = @ + 1, !.pRef = <<>>, !.pOpt = <<>>, !.pc = "gen"]
  IN  IF m.bppIndex + 1 < Len(OptDePngBppData) THEN [m1 EXCEPT !.bppIndex = @ + 1]
      ELSE IF m.w + 1 < CheckMaxW + 1 THEN [m1 EXCEPT !.bppIndex = 0, !.w = @ + 1]
      ELSE IF m.h + 1 < CheckMaxH + 1 THEN [m1 EXCEPT !.bppIndex = 0, !.w = 1, !.h = @ + 1]
      ELSE IF m.filter + 1 <= kPngFilterCount
        THEN [m1 EXCEPT !.bppIndex = 0, !.w = 1, !.h = 1, !.filter = @ + 1]
      ELSE IF m.name = "Opt"
        THEN CheckEntry([m1 EXCEPT !.passed = Append(@, m.name)], "SSE2")
      ELSE [m1 EXCEPT !.passed = Append(@, m.name), !.pc = "bench"]

InitMain ==
  /\ bpp = 1 /\ bpl = 2 /\ h = 1 /\ raw = <<0, 0>>
  /\ ref = Idle(raw, HeapBase) /\ opt = Idle(raw, HeapBase)
  /\ sse = IdleSSE2(raw, HeapBase)
  /\ fn = FnOff /\ gen = FnOff /\ cmp = FnOff
  /\ \E b \in Builds :
       main = CheckEntry([pc |-> "gen", name |-> "Opt", build |-> b,
                          filter |-> 0, h |-> 1, w |-> 1, bppIndex |-> 0, seed |-> 0,
                          pRef |-> <<>>, pOpt |-> <<>>, passed |-> <<>>,
                          result |-> CompareOk, benched |-> <<>>, exit |-> -1],
                         "Opt")

\* uint32_t bpp ... pOpt = OptDePngRandomImage(...): the two images of the
\* tuple, each in a block of its own.
CheckGen ==
  /\ main.pc = "gen"
  /\ LET bppA == OptDePngBppData[main.bppIndex + 1]
         n == RandomSize(main.w, main.h, bppA)
     IN  \E m1 \in Malloc(n, <<>>) :
           \E m2 \in Malloc(n, m1) :
             main' = [main EXCEPT !.pc = "run",
                        !.pRef = RandomFill(m1, main.w, main.h, bppA, main.filter, main.seed),
                        !.pOpt = RandomFill(m2, main.w, main.h, bppA, main.filter, main.seed)]
  /\ UNCHANGED <<bpp, bpl, h, raw, ref, opt, sse, fn, gen, cmp>>

\* One of the two calls of OptDePngRandomImage returns NULL, and the
\* kernel handed it reads its filter byte through the null pointer.
CheckNull ==
  /\ main.pc = "gen"
  /\ main' = [main EXCEPT !.pc = "fault"]
  /\ UNCHANGED <<bpp, bpl, h, raw, ref, opt, sse, fn, gen, cmp>>

\* The check that goes on to the next tuple whatever the comparison said.
CheckComparedGoOn(m, a, b, r) ==
  CheckAdvance([m EXCEPT !.pRef = a, !.pOpt = b, !.result = r])

\* The check after which main goes on to the benchmarks although the
\* comparison failed.
CheckComparedBench(m, a, b, r) ==
  IF ~r.ok THEN [m EXCEPT !.pRef = a, !.pOpt = b, !.result = r, !.pc = "bench"]
  ELSE CheckAdvance([m EXCEPT !.pRef = a, !.pOpt = b, !.result = r])

\* From ok = OptDePngCompare(...) on, a and b being the buffers the two
\* kernels left: free, free; if (!ok) return false, on which main returns
\* 1; else seed++ and the loops go on.
CheckCompared(m, a, b, r) ==
  IF ~r.ok THEN [m EXCEPT !.pRef = a, !.pOpt = b, !.result = r, !.pc = "exit", !.exit = 1]
  ELSE CheckAdvance([m EXCEPT !.pRef = a, !.pOpt = b, !.result = r])

CheckCompare(m, a, b, bppA) ==
  CheckCompared(m, a, b, OptDePngCompare(a, b, m.w, m.h, bppA, m.w * bppA + 1))

\* ref(pRef ...); opt(pOpt ...); ok = OptDePngCompare(...) and what follows.
CheckBody(m, bppA) ==
  CheckCompare(m,
    Linked(RefCallOn(m.pRef, m.h, bppA, m.w * bppA + 1), NoFlaw,
           m.h, bppA, m.w * bppA + 1),
    Linked(OptCallOn(m.name, m.pOpt, m.h, bppA, m.w * bppA + 1), m.build[m.name],
           m.h, bppA, m.w * bppA + 1),
    bppA)

CheckRun ==
  /\ main.pc = "run"
  /\ main' = CheckBody(main, OptDePngBppData[main.bppIndex + 1])
  /\ UNCHANGED <<bpp, bpl, h, raw, ref, opt, sse, fn, gen, cmp>>

\* The names of the benchmarks in the order main runs them.
Benches == <<"Ref", "Opt", "SSE2">>

\* OptDePngBench(name, func): it times the kernel and prints; of its effect
\* only that it ran is kept.
Bench ==
  /\ main.pc = "bench" /\ Len(main.benched) < Len(Benches)
  /\ main' = [main EXCEPT !.benched = Append(@, Benches[Len(@) + 1])]
  /\ UNCHANGED <<bpp, bpl, h, raw, ref, opt, sse, fn, gen, cmp>>

\* return 0;
MainReturn ==
  /\ main.pc = "bench" /\ Len(main.benched) = Len(Benches)
  /\ main' = [main EXCEPT !.pc = "exit", !.exit = 0]
  /\ UNCHANGED <<bpp, bpl, h, raw, ref, opt, sse, fn, gen, cmp>>

NextMain ==
  \/ CheckGen
  \/ CheckNull
  \/ CheckRun
  \/ Bench
  \/ MainReturn

SpecMain == InitMain /\ [][NextMain]_vars

---------------------------------------------------------------------------
(* Properties.  Rows are counted from 0; pixel byte i of a row is the byte *)
(* i places after the row's filter byte.                                   *)

RowsOf == 0..(h - 1)
PixelBytes == 0..(bpl - 2)
FilterByte(img, y) == img[y * bpl + 1]
Pixel(img, y, i) == img[y * bpl + 2 + i]

\* The image is one the harness could hand to a kernel: first row None and
\* every filter byte one of None, Sub, Up, Avg, Paeth.
Decodable ==
  /\ FilterByte(raw, 0) = kPngFilterNone
  /\ \A y \in RowsOf : FilterByte(raw, y) \in kPngFilterNone..kPngFilterPaeth

\* The kernel call k has finished row y.
Past(k, y) == k.pc # "idle" /\ k.pc # "fault" /\ h - k.y > y

\* The Paeth predictor as the PNG specification words it.
PngPaeth(left, above, upleft) ==
  LET pp == left + above - upleft
      pa == Abs(pp - left)
      pb == Abs(pp - above)
      pc == Abs(pp - upleft)
  IN  IF pa <= pb /\ pa <= pc THEN left ELSE IF pb <= pc THEN above ELSE upleft

\* C1: on a decodable image, at whichever of the 16 alignments the buffer
\* starts, OptDePngFilterSSE2 stays inside the buffer, does not fault, and
\* returns with the buffer byte for byte as OptDePngFilterRef left its own.
C1_SSE2EqualsRef ==
  Decodable =>
    /\ sse.pc # "fault" /\ ~sse.bad
    /\ sse.pc = "ret" => (ref.pc = "ret" /\ sse.buf = ref.buf)

\* A wide Paeth image of 6 bytes per pixel, placed 15 bytes past a 16-byte
\* boundary, has gone through the SSE2 kernel.
C1_Witness ==
  /\ Decodable /\ sse.pc = "ret" /\ sse.base % 16 = 15
  /\ bpp = 6 /\ bpl - 1 = MaxRowBytes /\ FilterByte(raw, 1) = kPngFilterPaeth
  /\ sse.buf = ref.buf /\ sse.buf # raw

\* C2: on a decodable image OptDePngFilterOpt stays inside the buffer, does
\* not fault, and returns with the buffer byte for byte as OptDePngFilterRef
\* left its own.
C2_OptEqualsRef ==
  Decodable =>
    /\ opt.pc # "fault" /\ ~opt.bad
    /\ opt.pc = "ret" => (ref.pc = "ret" /\ opt.buf = ref.buf)

\* An image with an Avg row above a Paeth row has gone through the
\* specialized kernel.
C2_Witness ==
  /\ Decodable /\ opt.pc = "ret" /\ h > 2
  /\ FilterByte(raw, 1) = kPngFilterAvg /\ FilterByte(raw, 2) = kPngFilterPaeth
  /\ opt.buf = ref.buf /\ opt.buf # raw

\* C3: PaethOpt(a, b, c) = PaethRef(b, a, c) for the bytes a, b tried and
\* every byte c.
C3_PaethOptEqualsPaethRef ==
  fn.pc = "done" => \A c \in Byte : fn.paethOpt[c] = fn.paethRefBA[c]

\* The tie a = b has been evaluated, the predictor returning a neighbour
\* for one c and c itself for another.
C3_Witness ==
  /\ fn.pc = "done" /\ fn.a = fn.b /\ fn.a = 100
  /\ fn.paethOpt[100] = 100 /\ fn.paethOpt[99] = fn.paethRefBA[99]
  /\ \E c \in Byte : fn.paethOpt[c] = fn.a /\ c # fn.a

\* C4: UDiv3(x) is the integer quotient x / 3 for every byte x.
C4_UDiv3IsDivisionBy3 ==
  fn.pc = "done" => fn.udiv3 = fn.a \div 3

\* UDiv3 has been applied to the largest byte.
C4_Witness == fn.pc = "done" /\ fn.a = 255 /\ fn.udiv3 = 85

\* What row 0 would become above an all-zero scanline.
RECURSIVE ZeroUpperByte(_)
ZeroUpperByte(i) ==
  LET f == FilterByte(raw, 0)
      x == Pixel(raw, 0, i)
      left == IF i < bpp THEN 0 ELSE ZeroUpperByte(i - bpp)
  IN  CASE f = kPngFilterUp -> x
        [] f = kPngFilterAvg -> (x + left \div 2) % 256
        [] f = kPngFilterPaeth -> (x + PngPaeth(left, 0, 0)) % 256
        [] OTHER -> x

\* The call k treats a filtered row 0 as lying under zeros: it reads
\* nothing outside the buffer, does not fault, and leaves the row as the
\* zero scanline gives it.
ZeroUpperKept(k) ==
  /\ k.pc # "fault" /\ ~k.bad
  /\ Past(k, 0) => \A i \in PixelBytes : Pixel(k.buf, 0, i) = ZeroUpperByte(i)

\* C5: when row 0 carries Up, Avg or Paeth each kernel reconstructs it as
\* under an all-zero scanline and completes.  The kernels start with
\* u = NULL and read u[i] all the same, so this does not hold.
C5_FirstRowUnderZeros ==
  FilterByte(raw, 0) \in {kPngFilterUp, kPngFilterAvg, kPngFilterPaeth} =>
    ZeroUpperKept(ref) /\ ZeroUpperKept(opt) /\ ZeroUpperKept(sse)

\* The pixel bytes of row y of the call k are those of the input.
RowKept(k, y) == \A i \in PixelBytes : Pixel(k.buf, y, i) = Pixel(raw, y, i)

\* C6: in all three kernels the pixel bytes of a None row are those of the
\* input, during the call and after it, whatever the other rows' filters.
C6_NoneRowUnchanged ==
  \A y \in RowsOf :
    FilterByte(raw, y) = kPngFilterNone =>
      RowKept(ref, y) /\ RowKept(opt, y) /\ RowKept(sse, y)

\* The three kernels have returned from an image with a None row between
\* the first row and a Paeth row.
C6_Witness ==
  /\ ref.pc = "ret" /\ opt.pc = "ret" /\ sse.pc = "ret" /\ h > 2
  /\ FilterByte(raw, 1) = kPngFilterNone /\ FilterByte(raw, 2) = kPngFilterPaeth
  /\ RowKept(sse, 1) /\ ~RowKept(sse, 2) /\ ~RowKept(ref, 2) /\ ~RowKept(opt, 2)

\* C7: the reference kernel leaves the first bpp pixel bytes of a Sub row
\* as they were and makes every later one (raw[i] + out[i - bpp]) mod 256,
\* out[i - bpp] being the byte already reconstructed.
C7_RefSub ==
  \A y \in RowsOf :
    (FilterByte(raw, y) = kPngFilterSub /\ Past(ref, y)) =>
      \A i \in PixelBytes :
        Pixel(ref.buf, y, i) =
          IF i < bpp THEN Pixel(raw, y, i)
          ELSE (Pixel(raw, y, i) + Pixel(ref.buf, y, i - bpp)) % 256

\* The worked Sub row: [1, 10, 20, 30, 40] has become [1, 10, 30, 60, 100].
C7_Witness ==
  /\ bpp = 1 /\ raw = <<1, 10, 20, 30, 40>>
  /\ ref.pc = "ret" /\ ref.buf = <<1, 10, 30, 60, 100>>

\* C8: the reference kernel makes every pixel byte of an Up row y >= 1
\* (raw[i] + prev[i]) mod 256, prev being the reconstructed row y - 1.
C8_RefUp ==
  \A y \in RowsOf :
    (y >= 1 /\ FilterByte(raw, y) = kPngFilterUp /\ Past(ref, y)) =>
      \A i \in PixelBytes :
        Pixel(ref.buf, y, i) = (Pixel(raw, y, i) + Pixel(ref.buf, y - 1, i)) % 256

\* The worked Up image: the second row has become [2, 11, 22, 33, 44, 55, 66]
\* and the first is as it was.
C8_Witness ==
  /\ bpp = 2 /\ raw = <<0, 1, 2, 3, 4, 5, 6,  2, 10, 20, 30, 40, 50, 60>>
  /\ ref.pc = "ret"
  /\ ref.buf = <<0, 1, 2, 3, 4, 5, 6,  2, 11, 22, 33, 44, 55, 66>>

\* C9: the reference kernel makes pixel byte i < bpp of an Avg row y >= 1
\* (raw[i] + floor(prev[i] / 2)) mod 256 and pixel byte i >= bpp
\* (raw[i] + floor((out[i - bpp] + prev[i]) / 2)) mod 256, the sum being
\* halved in full, before the reduction to a byte; the rows
\* [0, 10, 20, 30, 40] and [3, 2, 4, 6, 8] give the second row
\* [3, 7, 17, 29, 42].
C9_RefAvg ==
  /\ \A y \in RowsOf :
       (y >= 1 /\ FilterByte(raw, y) = kPngFilterAvg /\ Past(ref, y)) =>
         \A i \in PixelBytes :
           Pixel(ref.buf, y, i) =
             IF i < bpp
               THEN (Pixel(raw, y, i) + Pixel(ref.buf, y - 1, i) \div 2) % 256
               ELSE (Pixel(raw, y, i)
                       + (Pixel(ref.buf, y, i - bpp) + Pixel(ref.buf, y - 1, i)) \div 2)
                    % 256
  /\ (bpp = 1 /\ raw = <<0, 10, 20, 30, 40,  3, 2, 4, 6, 8>> /\ ref.pc = "ret") =>
       ref.buf = <<0, 10, 20, 30, 40,  3, 7, 17, 29, 42>>

\* An Avg row has been reconstructed in which some sum of the left and the
\* upper byte is odd and does not fit in a byte.
C9_Witness ==
  /\ ref.pc = "ret" /\ ~ref.bad
  /\ \E y \in RowsOf \ {0} :
       /\ FilterByte(raw, y) = kPngFilterAvg
       /\ \E i \in PixelBytes :
            /\ i >= bpp
            /\ Pixel(ref.buf, y, i - bpp) + Pixel(ref.buf, y - 1, i) > 256
            /\ (Pixel(ref.buf, y, i - bpp) + Pixel(ref.buf, y - 1, i)) % 2 = 1

\* C10: the reference kernel makes pixel byte i < bpp of a Paeth row y >= 1
\* (raw[i] + prev[i]) mod 256 and pixel byte i >= bpp
\* (raw[i] + paeth(out[i - bpp], prev[i], prev[i - bpp])) mod 256, paeth
\* being the predictor of the PNG specification.
C10_RefPaeth ==
  \A y \in RowsOf :
    (y >= 1 /\ FilterByte(raw, y) = kPngFilterPaeth /\ Past(ref, y)) =>
      \A i \in PixelBytes :
        Pixel(ref.buf, y, i) =
          IF i < bpp
            THEN (Pixel(raw, y, i) + Pixel(ref.buf, y - 1, i)) % 256
            ELSE (Pixel(raw, y, i)
                    + PngPaeth(Pixel(ref.buf, y, i - bpp), Pixel(ref.buf, y - 1, i),
                               Pixel(ref.buf, y - 1, i - bpp))) % 256

\* The worked Paeth image: the pixels of the second row have become
\* [11, 21, 31, 41, 51, 61].
C10_Witness ==
  /\ bpp = 3 /\ raw = <<0, 10, 20, 30, 40, 50, 60,  4, 1, 1, 1, 1, 1, 1>>
  /\ ref.pc = "ret"
  /\ ref.buf = <<0, 10, 20, 30, 40, 50, 60,  4, 11, 21, 31, 41, 51, 61>>

---------------------------------------------------------------------------
(* The harness.                                                            *)

\* The tuples OptDePngCheck goes through, and the place of a tuple in the
\* order of its loops, which is also the seed of the tuple.
CheckTuples ==
  [filter : 0..kPngFilterCount, h : 1..CheckMaxH, w : 1..CheckMaxW,
   bppIndex : 0..(Len(OptDePngBppData) - 1)]

TupleIndex(t) ==
  ((t.filter * CheckMaxH + (t.h - 1)) * CheckMaxW + (t.w - 1)) * Len(OptDePngBppData)
    + t.bppIndex

\* The reference kernel and the kernel linked under name leave the same
\* buffer, filter bytes and pixel bytes, on the image of tuple t.
Agree(name, t) ==
  LET bppA == OptDePngBppData[t.bppIndex + 1]
      bplA == t.w * bppA + 1
      img == OptDePngRandomImage(t.w, t.h, bppA, t.filter, TupleIndex(t))
  IN  Linked(RefCallOn(img, t.h, bppA, bplA), NoFlaw, t.h, bppA, bplA)
        = Linked(OptCallOn(name, img, t.h, bppA, bplA), main.build[name], t.h, bppA, bplA)

\* The tuple the loops of OptDePngCheck stand at.
CheckAt ==
  [filter |-> main.filter, h |-> main.h, w |-> main.w, bppIndex |-> main.bppIndex]

\* OptDePngCheck has just returned true for the kernel of this name.
JustPassed(name) ==
  /\ main.passed # <<>> /\ main.passed[Len(main.passed)] = name
  /\ \/ main.pc = "gen" /\ main.seed = 0
     \/ main.pc = "bench" /\ main.benched = <<>>

\* C11: when OptDePngCheck returns true the two kernels agree on the image
\* of every tuple; when it returns false it stands at the first tuple, in
\* the order of its loops, on which they differ, and has generated no
\* image of a later tuple.
C11_CheckStopsAtFirstDifference ==
  /\ \A name \in {"Opt", "SSE2"} :
       JustPassed(name) => \A t \in CheckTuples : Agree(name, t)
  /\ (main.pc = "exit" /\ main.exit = 1) =>
       /\ ~main.result.ok
       /\ main.seed = TupleIndex(CheckAt)
       /\ ~Agree(main.name, CheckAt)
       /\ \A t \in CheckTuples :
            TupleIndex(t) < TupleIndex(CheckAt) => Agree(main.name, t)

\* The check of SSE2 has returned false at a tuple that is not the first,
\* after the check of Opt returned true.
C11_Witness ==
  /\ main.pc = "exit" /\ main.exit = 1 /\ main.name = "SSE2"
  /\ main.seed > 0 /\ main.passed = <<"Opt">>
  /\ main.result.err = "Pixel !="


\* The rows of the buffers handed to OptDePngCompare that carry a filter
\* byte of no filter, in either buffer.
BadFilterRows ==
  {y \in 0..(cmp.h - 1) :
     \/ cmp.pA[y * (cmp.w * cmp.bpp + 1) + 1] >= kPngFilterCount
     \/ cmp.pB[y * (cmp.w * cmp.bpp + 1) + 1] >= kPngFilterCount}

\* C12: OptDePngCompare returns false whenever a row's filter byte is 5 or
\* more; on two identical buffers and the right bpl it stops at the first
\* such row with the message that names the filter.
C12_CompareRejectsBadFilter ==
  (cmp.pc = "done" /\ BadFilterRows # {}) =>
    /\ ~cmp.result.ok
    /\ (cmp.pA = cmp.pB /\ cmp.bpl = cmp.w * cmp.bpp + 1) =>
         /\ cmp.result.err = "Filter"
         /\ cmp.result.y \in BadFilterRows
         /\ \A y \in BadFilterRows : cmp.result.y <= y

\* Two identical buffers whose second row carries a byte of no filter have
\* been compared.
C12_Witness ==
  /\ cmp.pc = "done" /\ cmp.pA = cmp.pB /\ cmp.bpl = cmp.w * cmp.bpp + 1
  /\ BadFilterRows = {1}
  /\ cmp.result = CompareFail("Filter", 1, 0)


\* C13: main returns 1 once a comparison has failed, in the check of Opt or,
\* Opt having passed, in the check of SSE2, and then no benchmark has run;
\* the check of SSE2 is entered only after the check of Opt returned true;
\* a benchmark runs only after both checks returned true; main returns 0
\* only after the three benchmarks.
C13_MainExitCode ==
  /\ main.exit \in {-1, 0, 1}
  /\ main.exit # -1 <=> main.pc = "exit"
  /\ ~main.result.ok => main.exit = 1
  /\ main.exit = 1 =>
       /\ ~main.result.ok /\ main.benched = <<>>
       /\ \/ main.name = "Opt" /\ main.passed = <<>>
          \/ main.name = "SSE2" /\ main.passed = <<"Opt">>
  /\ main.name = "SSE2" => main.passed # <<>> /\ main.passed[1] = "Opt"
  /\ (main.pc = "bench" \/ main.benched # <<>>) => main.passed = <<"Opt", "SSE2">>
  /\ main.exit = 0 => main.benched = Benches /\ main.result.ok

\* The check of Opt has failed and main has returned 1.
C13_Witness ==
  /\ main.pc = "exit" /\ main.exit = 1 /\ main.name = "Opt"
  /\ main.passed = <<>> /\ main.benched = <<>>


---------------------------------------------------------------------------
(* The image generator.                                                    *)

\* C14: two calls of OptDePngRandomImage with the same arguments return
\* the same (w * bpp + 1) * h bytes, whatever the blocks malloc gave them
\* held and whether or not another call came in between.
C14_RandomImageDeterministic ==
  gen.pc = "done" =>
    /\ DOMAIN gen.first = 1..((gen.w * gen.bpp + 1) * gen.h)
    /\ DOMAIN gen.second = DOMAIN gen.first
    /\ \A j \in DOMAIN gen.first : gen.second[j] = gen.first[j]

\* The second call has returned after a call with other arguments left its
\* image in the heap.
C14_Witness ==
  /\ gen.pc = "done" /\ gen.freed # <<>>
  /\ gen.w * gen.bpp >= 2 /\ gen.h >= 2
  /\ gen.second = gen.first


\* The filter byte of row y of the image the first call returned.
GenFilterByte(y) == gen.first[y * (gen.w * gen.bpp + 1) + 1]

\* C15: in a generated image the filter byte of row 0 is 0; below it every
\* row carries filter when filter < 5 and (y - 1) mod 5 when filter = 5;
\* no filter byte is 5 or more.
C15_GeneratedFilterBytes ==
  gen.pc \in {"other", "second", "done"} =>
    \A y \in 0..(gen.h - 1) :
      /\ GenFilterByte(y) < kPngFilterCount
      /\ y = 0 => GenFilterByte(y) = kPngFilterNone
      /\ (y >= 1 /\ gen.filter < kPngFilterCount) => GenFilterByte(y) = gen.filter
      /\ (y >= 1 /\ gen.filter = kPngFilterCount) => GenFilterByte(y) = (y - 1) % 5

\* An image of mixed filters high enough for the filters to start again:
\* row 5 carries Paeth and row 6 None.
C15_Witness ==
  /\ gen.pc = "other" /\ gen.filter = kPngFilterCount /\ gen.h = 7
  /\ GenFilterByte(5) = kPngFilterPaeth /\ GenFilterByte(6) = kPngFilterNone


\* ---------------------------------------------------------------------
\* Memory traffic of a kernel call
\* ---------------------------------------------------------------------

\* How many times the call k has stored pixel byte i of row y.
Wr(k, y, i) == k.wr[y * bpl + 2 + i]

\* The call k has stored no byte of the buffer twice.
AtMostOnce(k) == \A j \in DOMAIN k.wr : k.wr[j] <= 1

\* The bytes of row y that its filter stores: all of an Up, Avg or Paeth
\* row, all but the first pixel of a Sub row, none of a None row.
Stored(y, i) ==
  \/ FilterByte(raw, y) \in {kPngFilterUp, kPngFilterAvg, kPngFilterPaeth}
  \/ FilterByte(raw, y) = kPngFilterSub /\ i >= bpp

\* In the rows the call k is past, the stored bytes were stored once and
\* the others never.
WritesExact(k) ==
  \A y \in RowsOf : Past(k, y) =>
    \A i \in PixelBytes : Wr(k, y, i) = IF Stored(y, i) THEN 1 ELSE 0

\* C16 as stated: in one invocation of any of the three kernels every
\* pixel byte of the buffer is written exactly once.  A None row and the
\* first pixel of a Sub row are never written, so this does not hold.
C16_EveryPixelWrittenOnce ==
  \A k \in {ref, opt, sse} :
    k.pc = "ret" => \A y \in RowsOf : \A i \in PixelBytes : Wr(k, y, i) = 1

\* C16, amended: in one invocation of any of the three kernels no byte is
\* written twice; every pixel byte of an Up, Avg or Paeth row and every
\* pixel byte but the first bpp of a Sub row is written exactly once, and
\* the bytes of a None row and the first bpp bytes of a Sub row are never
\* written.  (The record of a call does not change once the next kernel has
\* been called, so each call is looked at while it is the latest one.)
C16_PixelWrittenAtMostOnce ==
  /\ opt.pc = "idle" => AtMostOnce(ref) /\ WritesExact(ref)
  /\ sse.pc = "idle" => AtMostOnce(opt) /\ WritesExact(opt)
  /\ AtMostOnce(sse) /\ WritesExact(sse)

\* The three kernels have returned from an image with a None row, a Sub
\* row and a Paeth row: the None row and the first byte of the Sub row
\* were never stored, the rest once.
C16_Witness ==
  /\ ref.pc = "ret" /\ opt.pc = "ret" /\ sse.pc = "ret"
  /\ \E y \in RowsOf : FilterByte(raw, y) = kPngFilterNone /\ Wr(sse, y, 0) = 0
  /\ \E y \in RowsOf :
       /\ FilterByte(raw, y) = kPngFilterSub
       /\ Wr(sse, y, 0) = 0 /\ Wr(sse, y, bpl - 2) = 1 /\ Wr(ref, y, bpl - 2) = 1
  /\ \E y \in RowsOf : FilterByte(raw, y) = kPngFilterPaeth /\ Wr(opt, y, 0) = 1


\* How many times the call k has read the filter byte of row y.
Frd(k, y) == k.frd[y + 1]

\* The call k is inside row y: it has read the row's filter byte and has
\* not reached the end of the row.
Inside(k, y) == k.pc \in {"head", "body", "tail"} /\ h - k.y = y

\* The call k has read the filter byte of each row it is past or inside
\* once and no other, no pixel byte of a row had been stored when the
\* row's filter byte was read, and none is stored in a row whose filter
\* byte was not read.
FilterReadOnce(k) ==
  k.pc \notin {"idle", "fault"} =>
    /\ k.fresh
    /\ \A y \in RowsOf :
         /\ Frd(k, y) = IF Past(k, y) \/ Inside(k, y) THEN 1 ELSE 0
         /\ (\E i \in PixelBytes : Wr(k, y, i) > 0) => Frd(k, y) = 1

\* C17: in all three kernels the filter byte of every row is read before
\* any pixel byte of that row is written, and it is read exactly once (the
\* wide loads of the vector loops never reach a filter byte).
C17_FilterByteReadOnceFirst ==
  /\ opt.pc = "idle" => FilterReadOnce(ref)
  /\ sse.pc = "idle" => FilterReadOnce(opt)
  /\ FilterReadOnce(sse)

\* The SSE2 kernel is in the vector loop of the last of three rows, part
\* of the row stored and part not, each filter byte read once; the other
\* two kernels have read each of the three filter bytes once.
C17_Witness ==
  /\ h = 3 /\ sse.pc = "body" /\ Inside(sse, 2)
  /\ \A y \in RowsOf : Frd(ref, y) = 1 /\ Frd(opt, y) = 1 /\ Frd(sse, y) = 1
  /\ \E i \in PixelBytes : Wr(sse, 2, i) = 1
  /\ \E i \in PixelBytes : Wr(sse, 2, i) = 0 /\ Stored(2, i)


\* The row the call k works on, or is about to start: h once it returned.
RowAt(k) == h - k.y

\* The call k has not started row y.
Ahead(k, y) ==
  \/ k.pc = "idle"
  \/ k.pc = "row" /\ y >= RowAt(k)
  \/ k.pc \in {"head", "body", "tail"} /\ y > RowAt(k)

\* No filter byte was stored to or changed; the rows not started hold the
\* input and were not stored to.
RawAhead(k) ==
  \A y \in RowsOf :
    /\ k.wr[y * bpl + 1] = 0 /\ FilterByte(k.buf, y) = FilterByte(raw, y)
    /\ Ahead(k, y) => \A i \in PixelBytes :
                        Wr(k, y, i) = 0 /\ Pixel(k.buf, y, i) = Pixel(raw, y, i)

\* From k to k2 the buffer changed, and was stored to, only in the pixel
\* bytes of the row k works on.
StoresInRow(k, k2) ==
  \/ k2.buf = k.buf /\ k2.wr = k.wr
  \/ \A j \in DOMAIN k.buf :
       (k2.buf[j] # k.buf[j] \/ k2.wr[j] # k.wr[j]) =>
         (j - 1) \div bpl = RowAt(k) /\ (j - 1) % bpl # 0

\* C18: while it processes row y a kernel writes only pixel bytes of row
\* y, offsets y * bpl + 1 to (y + 1) * bpl - 1: never a filter byte, never
\* a byte of another row.  So the rows before y keep their reconstructed
\* values to the end of the call, and the rows after y hold the input
\* when their processing starts.
C18_WritesStayInRow ==
  /\ [](RawAhead(ref) /\ RawAhead(opt) /\ RawAhead(sse))
  /\ [][StoresInRow(ref, ref') /\ StoresInRow(opt, opt') /\ StoresInRow(sse, sse')]_vars

\* The SSE2 kernel is in the vector loop of the second of three rows of
\* more than 64 bytes, some of the row stored; the third row is not
\* started.
C18_Witness ==
  /\ h = 3 /\ bpl > 64 /\ sse.pc = "body" /\ RowAt(sse) = 1
  /\ FilterByte(raw, 0) = kPngFilterNone /\ FilterByte(raw, 2) # kPngFilterNone
  /\ \E i \in PixelBytes : Wr(sse, 1, i) = 1
  /\ Ahead(sse, 2) /\ ~Ahead(ref, 2) /\ ~Ahead(opt, 2)


\* ---------------------------------------------------------------------
\* The row loop
\* ---------------------------------------------------------------------

\* The address of the filter byte of row y of the buffer of the call k.
RowStart(k, y) == k.base + y * bpl

\* Between two rows, and at the return, p is at the filter byte of the
\* next row (one past the buffer at the return) and u at the first pixel
\* byte of the row just done; before row 0, u is NULL.  Inside a row p is
\* past the row's filter byte and not past its last pixel byte.
CursorsInStep(k) ==
  /\ k.pc \in {"row", "ret"} =>
       /\ k.p = RowStart(k, RowAt(k))
       /\ k.u = IF RowAt(k) = 0 THEN NULL ELSE RowStart(k, RowAt(k) - 1) + 1
  /\ k.pc \in {"head", "body", "tail"} =>
       k.p > RowStart(k, RowAt(k)) /\ k.p <= RowStart(k, RowAt(k) + 1)

\* C19: when the processing of row y >= 1 starts, p points at the filter
\* byte of row y and u at the first pixel byte of row y - 1.  Every row
\* with a filter byte 0..4 moves the cursor by exactly bpl bytes whichever
\* of the head, vector and tail paths it takes, and u is then reset to the
\* start of the row just finished.
C19_CursorsAtRowStart ==
  /\ opt.pc = "idle" => CursorsInStep(ref)
  /\ sse.pc = "idle" => CursorsInStep(opt)
  /\ CursorsInStep(sse)

\* The SSE2 kernel is about to start the third row of a buffer that is
\* not 16-byte aligned, after a Paeth row of more than 64 bytes that went
\* through the head, vector and tail paths.
C19_Witness ==
  /\ h = 3 /\ bpl > 64 /\ sse.base % 16 # 0
  /\ sse.pc = "row" /\ RowAt(sse) = 2
  /\ FilterByte(raw, 1) = kPngFilterPaeth
  /\ sse.p = sse.base + 2 * bpl /\ sse.u = sse.base + bpl + 1
  /\ ref.pc = "ret" /\ ref.p = ref.base + 3 * bpl /\ opt.pc = "ret"


\* The rows whose filter byte the call k has read, in the order of the
\* reads, are 0, 1, 2, ... with none left out or repeated: as many as the
\* rows done, plus the one in progress, and all h of them at the return.
RowsInOrder(k) ==
  k.pc # "idle" =>
    /\ \A n \in DOMAIN k.rows : k.rows[n] = n - 1
    /\ k.pc \in {"row", "ret"} => Len(k.rows) = RowAt(k)
    /\ k.pc \in {"head", "body", "tail"} => Len(k.rows) = RowAt(k) + 1
    /\ k.pc = "ret" => k.y = 0 /\ Len(k.rows) = h

\* A pass of a vector loop of the SSE2 kernel takes at least 8 bytes off
\* the remaining-byte counter i and leaves it at 0 or more; the loop is
\* left with i below its block size.  The head loop takes fewer than 16
\* bytes off i.
CounterDecreases(k, k2, bppA) ==
  /\ k.pc = "body" /\ k2.pc = "body" =>
       k2.i >= 0 /\ k2.i < k.i /\ k.i - k2.i \in {8, 16, 64}
  /\ k.pc = "body" /\ k2.pc \in {"row", "ret"} =>
       k.i >= 0 /\ (BlockBytes(k, bppA) > 0 => k.i < BlockBytes(k, bppA))
  /\ k.pc = "head" /\ k2.pc = "body" =>
       k2.i >= 0 /\ k2.i <= k.i /\ k.i - k2.i < 16

\* The three calls have returned.
AllReturned == ref.pc = "ret" /\ opt.pc = "ret" /\ sse.pc = "ret"

\* A call has faulted, or the last one has returned.
AllEnded == ref.pc = "fault" \/ opt.pc = "fault" \/ sse.pc \in {"fault", "ret"}

\* Some kernel is to be called or is inside its row loop: the guards of
\* the calls and of the steps of the three kernels.
CanStep ==
  \/ ref.pc \in {"idle", "row"}
  \/ ref.pc = "ret" /\ opt.pc \in {"idle", "row"}
  \/ opt.pc = "ret" /\ sse.pc \in {"idle", "row", "head", "body", "tail"}

\* A bound on the steps a scalar call has left: one per row, and the call.
RowsLeft(k) ==
  CASE k.pc = "idle" -> h + 1
    [] k.pc = "row" -> k.y
    [] OTHER -> 0

\* A bound on the steps the SSE2 call has left: at most bpl + 2 per row
\* (the filter byte, the head, the passes of the vector loops, the tail).
PassesLeft(k) ==
  CASE k.pc = "idle" -> h * (bpl + 3) + 1
    [] k.pc = "row" -> k.y * (bpl + 3)
    [] k.pc = "head" -> (k.y - 1) * (bpl + 3) + k.i + 2
    [] k.pc = "body" -> (k.y - 1) * (bpl + 3) + k.i + 1
    [] k.pc = "tail" -> (k.y - 1) * (bpl + 3) + 1
    [] OTHER -> 0

\* The steps left to the three calls.
StepsLeft == RowsLeft(ref) + RowsLeft(opt) + PassesLeft(sse)

WritePtr(k) == IF k.filter = kPngFilterUp THEN k.p ELSE k.p + bpp

\* The step from k to k2 is the scalar head of a row: it took
\* j = OptAlignDiff(write pointer, 16) bytes, 0 <= j <= 15 and no more
\* than remained, and left the write pointer on a multiple of 16.
HeadAligns(k, k2) ==
  k.pc = "head" /\ k2.pc = "body" =>
    LET j == k.i - k2.i
    IN  /\ j = OptAlignDiff(WritePtr(k), 16)
        /\ j >= 0 /\ j <= 15 /\ j <= k.i
        /\ k2.p = k.p + j
        /\ WritePtr(k2) % 16 = 0

\* C22: in the SSE2 kernel, whenever a vector body is entered the scalar
\* head has consumed j = OptAlignDiff(write pointer, 16) bytes with
\* 0 <= j <= 15 and j not above the remaining byte count, so that every
\* aligned 16-byte load or store is issued at a multiple of 16: the write
\* pointer is one before every pass of a loop of 64 or 16 bytes, and no
\* aligned access was ever issued elsewhere.
C22_HeadAlignsWrites ==
  /\ [](/\ sse.aligned
        /\ sse.pc = "body" /\ (In64(sse) \/ (In16(sse, bpp) /\ BlockBytes(sse, bpp) = 16))
             => WritePtr(sse) % 16 = 0)
  /\ [][HeadAligns(sse, sse')]_vars

\* The SSE2 kernel enters the 64-byte loop of a Sub row of a buffer that
\* is not 16-byte aligned: the head has consumed some bytes and the write
\* pointer p + bpp is a multiple of 16.
C22_Witness ==
  /\ sse.pc = "body" /\ sse.filter = kPngFilterSub /\ In64(sse)
  /\ sse.base % 16 # 0 /\ sse.p % 16 # 0
  /\ sse.p > RowStart(sse, RowAt(sse)) + 1
  /\ sse.i + (sse.p - RowStart(sse, RowAt(sse)) - 1) = bpl - 1 - bpp
  /\ WritePtr(sse) % 16 = 0


\* ---------------------------------------------------------------------
\* The Paeth predictor
\* ---------------------------------------------------------------------

\* C23 as stated: in PaethOpt, for every (a, b, c), exactly one of the two
\* masked terms is nonzero.  Both are zero whenever the predictor is c,
\* so this does not hold.
C23_ExactlyOneTermNonzero ==
  fn.pc = "done" =>
    \A c \in Byte : (fn.parts[c].hi # 0) # (fn.parts[c].lo # 0)

\* C23, amended: in PaethOpt, for every (a, b, c), at most one of the two
\* masked terms is nonzero; the predictor is c plus that term, so both
\* terms are zero exactly when the predictor is c.
C23_AtMostOneTermNonzero ==
  fn.pc = "done" =>
    \A c \in Byte :
      /\ fn.parts[c].hi = 0 \/ fn.parts[c].lo = 0
      /\ fn.paethOpt[c] = c + fn.parts[c].hi + fn.parts[c].lo
      /\ (fn.parts[c].hi = 0 /\ fn.parts[c].lo = 0) <=> fn.paethOpt[c] = c

\* PaethOpt has been applied to a < b: for one c the first term alone is
\* nonzero, for another the second alone, for a third neither.
C23_Witness ==
  /\ fn.pc = "done" /\ fn.a < fn.b
  /\ \E c \in Byte : fn.parts[c].hi # 0 /\ fn.parts[c].lo = 0 /\ fn.paethOpt[c] = fn.b
  /\ \E c \in Byte : fn.parts[c].hi = 0 /\ fn.parts[c].lo # 0 /\ fn.paethOpt[c] = fn.a
  /\ \E c \in Byte : fn.parts[c].hi = 0 /\ fn.parts[c].lo = 0 /\ c # fn.a /\ c # fn.b

C25_PaethRefSymmetric ==
  fn.pc = "done" => \A c \in Byte : fn.paethRefAB[c] = fn.paethRefBA[c]

\* PaethRef has been applied both ways to a # b, where it returns a for
\* one c, b for another and c itself for a third.
C25_Witness ==
  /\ fn.pc = "done" /\ fn.a # fn.b
  /\ \E c \in Byte : fn.paethRefAB[c] = fn.a /\ fn.paethRefBA[c] = fn.a /\ c # fn.a
  /\ \E c \in Byte : fn.paethRefAB[c] = fn.b /\ fn.paethRefBA[c] = fn.b /\ c # fn.b
  /\ \E c \in Byte : fn.paethRefAB[c] = c /\ c # fn.a /\ c # fn.b

\* C26: for every byte x the high 16 bits of x * 0x5580, the 16-bit
\* unsigned multiply-high by 0xAB << 7 of PNG_SSE_PAETH, equal
\* UDiv3(x) = (x * 0xAB) >> 9.
C26_MulhiIsUDiv3 ==
  fn.pc = "done" => fn.divAB16 = fn.udiv3 /\ fn.divAB16 = (fn.a * 21888) \div 65536

\* Both forms have been applied to the largest byte and give 85.
C26_Witness == fn.pc = "done" /\ fn.a = 255 /\ fn.divAB16 = 85 /\ fn.udiv3 = 85


\* ---------------------------------------------------------------------
\* The Sub window of the SSE2 kernel
\* ---------------------------------------------------------------------

\* Byte j (from 1) of a Sub row reconstructed one byte after the other:
\* the filter byte and the first pixel as they are, then
\* x[j] = (raw[j] + x[j - bpp]) mod 256.
RECURSIVE SubSequential(_, _, _)
SubSequential(row, j, bppA) ==
  IF j <= 1 + bppA THEN row[j]
  ELSE (row[j] + SubSequential(row, j - bppA, bppA)) % 256

\* C27: for each bpp in {1, 2, 3, 4, 6, 8} the shift-and-add steps of the
\* schedule (1,2,4,8; 2,4,8; 3,6,12; 4,8; 6,12; 8) applied to a 16-byte
\* window that was first added to the carry in its low bpp bytes give the
\* sequential Sub reconstruction of the 16 bytes modulo 256, and the top
\* bpp bytes of the result, moved to the low bytes, are the carry of the
\* next window.
C27_SubWindowIsSequential ==
  fn.pc = "passed" =>
    /\ ~fn.k.bad /\ fn.k.aligned /\ fn.k.inrow
    /\ \A j \in 1..Len(fn.row) : fn.k.buf[j] = SubSequential(fn.row, j, fn.bpp)
    /\ \A j \in 1..16 :
         fn.k.p0[j] = IF j <= fn.bpp
                        THEN SubSequential(fn.row, Len(fn.row) - fn.bpp + j, fn.bpp)
                      ELSE 0
    /\ fn.k.p = fn.k.base + 17 /\ fn.k.i = 0

\* The pass has run on a window of three-byte pixels and changed each of
\* its 16 bytes.
C27_Witness ==
  /\ fn.pc = "passed" /\ fn.bpp = 3
  /\ \A j \in 5..20 : fn.k.buf[j] # fn.row[j] /\ fn.k.wr[j] = 1
  /\ \A j \in 1..4 : fn.k.buf[j] = fn.row[j] /\ fn.k.wr[j] = 0



\* ---------------------------------------------------------------------
\* The 16-bit sums of Avg <4>
\* ---------------------------------------------------------------------

\* A step of the SSE2 kernel that is one pass of while (i >= 16) of an
\* Avg row of four-byte pixels, without a faulting access.
AvgPass4(k, k2) ==
  /\ bpp = 4 /\ k.pc = "body" /\ k.filter = kPngFilterAvg /\ In16(k, bpp)
  /\ k2.pc = "body" /\ k2.i = k.i - 16 /\ ~k2.bad

\* The sums t = 2 * p + u + carry of the pass from k to k2, 16 bits each:
\* the low half covers the bytes p[4..11], the high half p[12..19]; the
\* carry of the first pixel of a half is the reconstructed pixel left of
\* it, the second pixel of a half has none yet.
AvgSumLo(k, j) ==
  2 * Ld(k, k.p + 4 + j) + Ld(k, k.u + j) + (IF j < 4 THEN Ld(k, k.p + j) ELSE 0)

AvgSumHi(k, k2, j) ==
  2 * Ld(k, k.p + 12 + j) + Ld(k, k.u + 8 + j)
    + (IF j < 4 THEN Ld(k2, k.p + 8 + j) ELSE 0)

\* The bytes the pass from k to k2 stores are the Avg reconstruction
\* x = raw + ((left + up) >> 1) modulo 256 of p[4..19].
AvgStored(k, k2) ==
  \A j \in 0..15 :
    Ld(k2, k.p + 4 + j)
      = (Ld(k, k.p + 4 + j) + (Ld(k2, k.p + j) + Ld(k, k.u + j)) \div 2) % 256

\* The masked sums of the latest pass are the sums with only their low
\* nine bits kept.
AvgMasked(k) ==
  \A j \in 0..7 :
    /\ U16(k.avg.loM, j) = U16(k.avg.lo, j) % 512
    /\ U16(k.avg.hiM, j) = U16(k.avg.hi, j) % 512

BadFilterAt(k) == k.pc = "row" /\ InBuf(k, k.p) /\ Ld(k, k.p) > kPngFilterPaeth

\* The iteration from k to k2 on such a byte: no byte is stored, the
\* cursor has passed the one byte only, u is bpl - 1 bytes before the
\* cursor, the row counter has gone down, and the loop goes on or the call
\* returns as after any row, with no fault and nothing to tell the caller.
SkipsFilterByte(k, k2) ==
  /\ k2.buf = k.buf /\ k2.wr = k.wr
  /\ k2.p = k.p + 1
  /\ k2.u = k2.p - (bpl - 1)
  /\ k2.y = k.y - 1
  /\ k2.pc = (IF k2.y = 0 THEN "ret" ELSE "row")
  /\ k2.bad = k.bad
  /\ k2.rows = Append(k.rows, (k.p - k.base) \div bpl)

\* When the byte was the filter byte of a row, the next iteration, if
\* there is one, stands at the first pixel byte of that row.
AtFirstPixel(k, k2) ==
  (k.p - k.base) % bpl = 0 => (k2.p - k2.base) % bpl = 1

\* An iteration that stands at the first pixel byte of a row and finds 0
\* there takes it for the filter None: it passes that byte and bpl - 1
\* more and stores nothing.
FirstPixelAsNone(k, k2) ==
  k.pc = "row" /\ (k.p - k.base) % bpl = 1 /\ Ld(k, k.p) = kPngFilterNone /\ k2 # k =>
    k2.pc \in {"row", "ret"} /\ k2.p = k.p + bpl /\ k2.buf = k.buf

\* C29 as stated, for a kernel call k and its next state k2: on a filter
\* byte >= 5 the kernel stores nothing to the row and passes the filter
\* byte only, the next iteration takes the row's first pixel byte as a
\* filter byte with u bpl - 1 bytes before it, which on row 0 is before the
\* start of the buffer, and the kernel reports nothing.
BadFilterSkipped(k, k2) ==
  BadFilterAt(k) /\ k2 # k =>
    /\ SkipsFilterByte(k, k2)
    /\ AtFirstPixel(k, k2)
    /\ (k.p = k.base => k2.u < k2.base)

C29_BadFilterByteSkipped ==
  [][/\ BadFilterSkipped(ref, ref')
     /\ BadFilterSkipped(opt, opt')
     /\ BadFilterSkipped(sse, sse')]_vars

\* The same with u on row 0 where the code puts it: at base + 2 - bpl,
\* which is before the start of the buffer when bpl > 2 and is the start
\* of the buffer when bpl = 2 (one pixel of one byte).
BadFilterSkippedTo(k, k2) ==
  BadFilterAt(k) /\ k2 # k =>
    /\ SkipsFilterByte(k, k2)
    /\ AtFirstPixel(k, k2)
    /\ (k.p = k.base => k2.u = k2.base + 2 - bpl /\ (k2.u < k2.base <=> bpl > 2))

\* C29, amended: when a kernel reads a filter byte >= 5 it modifies no
\* pixel byte of that row and advances the cursor by the one filter byte
\* instead of bpl bytes, so the next iteration takes the row's first pixel
\* byte as a filter byte and u is set bpl - 1 bytes before it: on row 0
\* that is before the start of the buffer when bpl > 2 and at its start
\* when bpl = 2.  The kernel neither reports nor detects the error.
C29_BadFilterByteSkippedTo ==
  [][/\ BadFilterSkippedTo(ref, ref') /\ FirstPixelAsNone(ref, ref')
     /\ BadFilterSkippedTo(opt, opt') /\ FirstPixelAsNone(opt, opt')
     /\ BadFilterSkippedTo(sse, sse') /\ FirstPixelAsNone(sse, sse')]_vars

\* The SSE2 kernel has read the bad filter byte of row 1, then the first
\* pixel byte of row 1 as a filter byte, with u bpl - 1 bytes before that
\* byte, and has stored to pixel bytes of row 1 under that filter; the
\* other two kernels have done the same and returned.
C29_Witness ==
  /\ FilterByte(raw, 1) > kPngFilterPaeth
  /\ ref.pc = "ret" /\ opt.pc = "ret" /\ ~sse.bad
  /\ ref.rows = <<0, 1, 1>> /\ opt.rows = <<0, 1, 1>>
  /\ sse.rows = <<0, 1, 1>> /\ sse.pc \in {"head", "body", "tail"}
  /\ sse.u = sse.base + bpl + 2 - bpl
  /\ \E j \in (bpl + 2)..(2 * bpl) : sse.wr[j] > 0 /\ sse.buf[j] # raw[j]



\* ---------------------------------------------------------------------
\* A bpp that is no case of the dispatch
\* ---------------------------------------------------------------------

\* The bpp values that are case labels of OptDePngFilterOpt and
\* OptDePngFilterSSE2.
SupportedBpp == {1, 2, 3, 4, 6, 8}

\* The call k has not entered a row loop: no filter byte was read, no byte
\* was stored, the buffer is the input and the cursor is where the call
\* got it.
Untouched(k) ==
  /\ k.pc \in {"idle", "ret"} /\ ~k.bad
  /\ k.buf = raw /\ \A j \in DOMAIN k.wr : k.wr[j] = 0
  /\ k.rows = <<>> /\ k.frd = <<>>
  /\ k.p = k.base /\ k.u = NULL /\ k.y = 0

\* C30: for a bpp outside {1, 2, 3, 4, 6, 8} OptDePngFilterOpt and
\* OptDePngFilterSSE2 return without reading or writing any byte of the
\* buffer, whereas OptDePngFilterRef runs its row loop with that bpp: it
\* reads the filter byte of every row and reconstructs the Sub, Up, Avg
\* and Paeth rows at the distance bpp.  So once all three have returned the
\* two dispatching entry points agree with each other, and with the
\* reference only where the reference changed no byte; they agree on all
\* images only for the supported bpp values.
C30_OnlySupportedBppDispatched ==
  bpp \notin SupportedBpp =>
    /\ Untouched(opt) /\ Untouched(sse)
    /\ ref.pc # "fault" /\ ~ref.bad
    /\ C7_RefSub /\ C8_RefUp /\ C9_RefAvg /\ C10_RefPaeth
    /\ ref.pc = "ret" =>
         /\ ref.rows = [y \in 1..h |-> y - 1]
         /\ WritesExact(ref)
         /\ (ref.buf = raw <=> \A y \in RowsOf : \A i \in PixelBytes : ~Stored(y, i))

\* The three entry points have returned from an image of 5 bytes per pixel
\* with Paeth rows: the reference has changed bytes of every row below the
\* first, the other two have left the input as it was.
C30_Witness ==
  /\ bpp = 5 /\ FilterByte(raw, 1) = kPngFilterPaeth /\ bpl > 2 * bpp
  /\ ref.pc = "ret" /\ opt.pc = "ret" /\ sse.pc = "ret"
  /\ opt.buf = raw /\ sse.buf = raw
  /\ \A y \in 1..(h - 1) : \E i \in PixelBytes : Pixel(ref.buf, y, i) # Pixel(raw, y, i)

=============================================================================
